---- MODULE Spec2Model ----
(***************************************************************************)
(* Graviton: a turn-based planet-conquest game on a 4x4 grid.              *)
(*                                                                         *)
(* The model keeps Python's object structure: Planet objects live in a     *)
(* heap (planets), boards are records that hold references (ids) to them.  *)
(* Board 0 is the live GameBoard; the search (MinimaxAI) allocates clones. *)
(***************************************************************************)
EXTENDS Integers, Sequences, FiniteSets, TLC

VARIABLES planets,   \* heap of Planet objects: id -> [x, y, size, owner, ships, max_ships]
          boards,    \* heap of GameBoard objects: id -> [grid, planets, turn, current_player, game_over, winner]
          call,      \* the last call made on the live board: what it read of its arguments, what it returned
          opening,   \* the calls of the scripted opening still to be made
          attack_calls,    \* number of attack calls made after the opening
          end_turn_calls,  \* number of end_turn calls made after the opening
          ai,        \* the MinimaxAI instance whose get_best_move is running, or NoAI
          stack      \* the minimax activations of that call, the root first

vars == <<planets, boards, call, opening, attack_calls, end_turn_calls, ai, stack>>

----------------------------------------------------------------------------
(* constants.py *)

BOARD_SIZE == 4
MAX_TURNS == 30
WIN_CONDITION_PLANETS == 12

(* Bounds of the model *)

MaxShipCount == 10     \* ship_count arguments tried: 0..MaxShipCount
MaxAttacks == 1        \* attack calls explored after the scripted opening
MaxEndTurns == 2       \* end_turn calls explored after the scripted opening
MaxCount == 8          \* max_count arguments tried: 0..MaxCount

----------------------------------------------------------------------------
(* Small helpers *)

Min(a, b) == IF a <= b THEN a ELSE b
Max(a, b) == IF a >= b THEN a ELSE b

Coord == 0 .. (BOARD_SIZE - 1)
Cells == Coord \X Coord           \* a cell is <<x, y>>

\* Python's None for owner / winner
None == "None"
Owners == {"player", "ai"}

\* The live board and its planets
LIVE == 0

\* The Planet object created for cell <<x, y>> of board b: ids are allocated
\* in creation order (for y, for x), 16 per board.
PlanetId(b, x, y) == b * (BOARD_SIZE * BOARD_SIZE) + y * BOARD_SIZE + x + 1

\* The creation order of the double loop "for y: for x:" as a sequence of cells
CellOrder == [i \in 1 .. (BOARD_SIZE * BOARD_SIZE) |->
                 <<(i - 1) % BOARD_SIZE, (i - 1) \div BOARD_SIZE>>]

----------------------------------------------------------------------------
(* models.py: Planet *)

\* Planet.__init__(x, y, size, owner)
Planet(x, y, size, owner) ==
    [x |-> x, y |-> y, size |-> size, owner |-> owner, ships |-> 0,
     max_ships |-> size * 3]

get_position(p) == <<p.x, p.y>>

\* add_ships without the capacity limit
add_ships_uncapped(p, count) == [p EXCEPT !.ships = p.ships + count]

add_ships(p, count) == [p EXCEPT !.ships = Min(p.ships + count, p.max_ships)]

\* a removal that takes one ship more than asked
remove_ships_one_more(p, count) == [p EXCEPT !.ships = Max(0, p.ships - count - 1)]

remove_ships(p, count) == [p EXCEPT !.ships = Max(0, p.ships - count)]

generate_ships(p) == IF p.owner \in {"player", "ai"} THEN add_ships(p, 1) ELSE p

----------------------------------------------------------------------------
(* game_board.py: GameBoard.  The operators below take the planet heap P  *)
(* and a board record b and give the heap / record after the method ran.  *)

\* random.randint(1, 3) for each of the 16 planets: the layouts explored
SizeLayouts ==
    { [c \in Cells |-> 1], [c \in Cells |-> 3],
      [c \in Cells |-> ((c[1] + 2 * c[2]) % 3) + 1] }

\* GameBoard.__init__: the fields of a new board (grid filled by initialize_board)
NewBoard(b) ==
    [grid |-> [c \in Cells |-> PlanetId(b, c[1], c[2])],
     planets |-> [i \in 1 .. (BOARD_SIZE * BOARD_SIZE) |->
                     PlanetId(b, CellOrder[i][1], CellOrder[i][2])],
     turn |-> 0, current_player |-> "player",
     game_over |-> FALSE, winner |-> None]

\* initialize_board: the 16 planets of the live board, sizes from layout sz
initialize_board(sz) ==
    LET fresh == [id \in 1 .. (BOARD_SIZE * BOARD_SIZE) |->
                    Planet(CellOrder[id][1], CellOrder[id][2], sz[CellOrder[id]], None)]
        p00 == PlanetId(LIVE, 0, 0)     \* grid[0][0]
        p10 == PlanetId(LIVE, 1, 0)     \* grid[0][1]  (y = 0, x = 1)
        p33 == PlanetId(LIVE, 3, 3)     \* grid[3][3]
        p23 == PlanetId(LIVE, 2, 3)     \* grid[3][2]  (y = 3, x = 2)
    IN [fresh EXCEPT ![p00].owner = "player", ![p00].ships = 10,
                     ![p10].owner = "player", ![p10].ships = 8,
                     ![p33].owner = "ai",     ![p33].ships = 10,
                     ![p23].owner = "ai",     ![p23].ships = 8]

\* get_planet_at(x, y)
get_planet_at(b, x, y) ==
    IF 0 <= x /\ x < BOARD_SIZE /\ 0 <= y /\ y < BOARD_SIZE THEN b.grid[<<x, y>>] ELSE 0

\* get_player_planets(owner): the board's planet ids with that owner, in list order
RECURSIVE Filter(_, _, _)
Filter(P, ids, owner) ==
    IF ids = <<>> THEN <<>>
    ELSE IF P[Head(ids)].owner = owner
         THEN <<Head(ids)>> \o Filter(P, Tail(ids), owner)
         ELSE Filter(P, Tail(ids), owner)

get_player_planets(P, b, owner) == Filter(P, b.planets, owner)

\* generate_all_ships: every planet of the board generates
generate_all_ships(P, b) ==
    [id \in DOMAIN P |->
        IF \E i \in DOMAIN b.planets : b.planets[i] = id
        THEN generate_ships(P[id]) ELSE P[id]]

\* The invalid-move signal (False) and the attack_info dict of a valid attack
InvalidMove == <<>>
attack_info(src, tgt) ==
    <<get_position(src), get_position(tgt), src.owner>>

\* validation that lets a planet send all its ships
attack_valid_all_ships(P, b, source, ship_count) ==
    ~ (P[source].owner /= b.current_player)
    /\ ~ (P[source].ships < ship_count)
    /\ ~ (ship_count < 1)

\* attack: validation (lines 93-98)
attack_valid(P, b, source, ship_count) ==
    ~ (P[source].owner /= b.current_player)
    /\ ~ (P[source].ships <= ship_count)
    /\ ~ (ship_count < 1)

\* the battle where a captured planet keeps all the ships sent
attack_planets_no_losses(P, source, target, ship_count) ==
    LET P1 == [P EXCEPT ![source] = remove_ships(@, ship_count)]
    IN IF P1[target].owner = P1[source].owner
       THEN [P1 EXCEPT ![target] = add_ships(@, ship_count)]
       ELSE IF ship_count > P1[target].ships
            THEN [P1 EXCEPT ![target].owner = P1[source].owner,
                            ![target].ships = ship_count]
            ELSE [P1 EXCEPT ![target] = remove_ships(@, ship_count)]

\* the battle where equal forces go to the attacker
attack_planets_tie_captures(P, source, target, ship_count) ==
    LET P1 == [P EXCEPT ![source] = remove_ships(@, ship_count)]
    IN IF P1[target].owner = P1[source].owner
       THEN [P1 EXCEPT ![target] = add_ships(@, ship_count)]
       ELSE IF ship_count >= P1[target].ships
            THEN [P1 EXCEPT ![target].owner = P1[source].owner,
                            ![target].ships = ship_count - P1[target].ships]
            ELSE [P1 EXCEPT ![target] = remove_ships(@, ship_count)]

\* the battle where a planet left without ships becomes neutral
attack_planets_emptied_neutral(P, source, target, ship_count) ==
    LET P1 == [P EXCEPT ![source] = remove_ships(@, ship_count)]
    IN IF P1[target].owner = P1[source].owner
       THEN [P1 EXCEPT ![target] = add_ships(@, ship_count)]
       ELSE IF ship_count > P1[target].ships
            THEN [P1 EXCEPT ![target].owner = P1[source].owner,
                            ![target].ships = ship_count - P1[target].ships]
            ELSE IF ship_count = P1[target].ships
                 THEN [P1 EXCEPT ![target].owner = None, ![target].ships = 0]
                 ELSE [P1 EXCEPT ![target] = remove_ships(@, ship_count)]

\* attack: the battle at the target (lines 100-123); source and target are ids
\* of Planet objects, so source = target is the same object
attack_planets(P, source, target, ship_count) ==
    LET P1 == [P EXCEPT ![source] = remove_ships(@, ship_count)]
    IN IF P1[target].owner = P1[source].owner
       THEN [P1 EXCEPT ![target] = add_ships(@, ship_count)]
       ELSE IF ship_count > P1[target].ships
            THEN [P1 EXCEPT ![target].owner = P1[source].owner,
                            ![target].ships = ship_count - P1[target].ships]
            ELSE [P1 EXCEPT ![target] = remove_ships(@, ship_count)]

\* attack(source, target, ship_count): the heap afterwards and the value returned
attack(P, b, source, target, ship_count) ==
    IF ~ attack_valid(P, b, source, ship_count)
    THEN [planets |-> P, ret |-> InvalidMove]
    ELSE [planets |-> attack_planets(P, source, target, ship_count),
          ret |-> attack_info(P[source], P[target])]

\* domination only above the threshold
check_game_over_strict(P, b) ==
    LET player_planets == Len(get_player_planets(P, b, "player"))
        ai_planets == Len(get_player_planets(P, b, "ai"))
    IN IF player_planets = 0 THEN [b EXCEPT !.game_over = TRUE, !.winner = "ai"]
       ELSE IF ai_planets = 0 THEN [b EXCEPT !.game_over = TRUE, !.winner = "player"]
       ELSE IF player_planets > WIN_CONDITION_PLANETS
            THEN [b EXCEPT !.game_over = TRUE, !.winner = "player"]
       ELSE IF ai_planets > WIN_CONDITION_PLANETS
            THEN [b EXCEPT !.game_over = TRUE, !.winner = "ai"]
       ELSE IF b.turn >= MAX_TURNS
            THEN [b EXCEPT !.game_over = TRUE,
                           !.winner = IF player_planets > ai_planets THEN "player"
                                      ELSE IF ai_planets > player_planets THEN "ai"
                                      ELSE "tie"]
       ELSE b

\* the turn limit only once passed
check_game_over_late(P, b) ==
    LET player_planets == Len(get_player_planets(P, b, "player"))
        ai_planets == Len(get_player_planets(P, b, "ai"))
    IN IF player_planets = 0 THEN [b EXCEPT !.game_over = TRUE, !.winner = "ai"]
       ELSE IF ai_planets = 0 THEN [b EXCEPT !.game_over = TRUE, !.winner = "player"]
       ELSE IF player_planets >= WIN_CONDITION_PLANETS
            THEN [b EXCEPT !.game_over = TRUE, !.winner = "player"]
       ELSE IF ai_planets >= WIN_CONDITION_PLANETS
            THEN [b EXCEPT !.game_over = TRUE, !.winner = "ai"]
       ELSE IF b.turn > MAX_TURNS
            THEN [b EXCEPT !.game_over = TRUE,
                           !.winner = IF player_planets > ai_planets THEN "player"
                                      ELSE IF ai_planets > player_planets THEN "ai"
                                      ELSE "tie"]
       ELSE b

\* equal counts at the turn limit go to the player
check_game_over_no_tie(P, b) ==
    LET player_planets == Len(get_player_planets(P, b, "player"))
        ai_planets == Len(get_player_planets(P, b, "ai"))
    IN IF player_planets = 0 THEN [b EXCEPT !.game_over = TRUE, !.winner = "ai"]
       ELSE IF ai_planets = 0 THEN [b EXCEPT !.game_over = TRUE, !.winner = "player"]
       ELSE IF player_planets >= WIN_CONDITION_PLANETS
            THEN [b EXCEPT !.game_over = TRUE, !.winner = "player"]
       ELSE IF ai_planets >= WIN_CONDITION_PLANETS
            THEN [b EXCEPT !.game_over = TRUE, !.winner = "ai"]
       ELSE IF b.turn >= MAX_TURNS
            THEN [b EXCEPT !.game_over = TRUE,
                           !.winner = IF player_planets >= ai_planets THEN "player"
                                      ELSE "ai"]
       ELSE b

\* check_game_over: the board record afterwards
check_game_over(P, b) ==
    LET player_planets == Len(get_player_planets(P, b, "player"))
        ai_planets == Len(get_player_planets(P, b, "ai"))
    IN IF player_planets = 0 THEN [b EXCEPT !.game_over = TRUE, !.winner = "ai"]
       ELSE IF ai_planets = 0 THEN [b EXCEPT !.game_over = TRUE, !.winner = "player"]
       ELSE IF player_planets >= WIN_CONDITION_PLANETS
            THEN [b EXCEPT !.game_over = TRUE, !.winner = "player"]
       ELSE IF ai_planets >= WIN_CONDITION_PLANETS
            THEN [b EXCEPT !.game_over = TRUE, !.winner = "ai"]
       ELSE IF b.turn >= MAX_TURNS
            THEN [b EXCEPT !.game_over = TRUE,
                           !.winner = IF player_planets > ai_planets THEN "player"
                                      ELSE IF ai_planets > player_planets THEN "ai"
                                      ELSE "tie"]
       ELSE b

\* end_turn that checks the terminal conditions before it counts the turn
end_turn_check_first(P, b) ==
    LET P1 == generate_all_ships(P, b)
        b0 == check_game_over(P1, b)
        b1 == [b0 EXCEPT !.turn = @ + 1]
    IN [planets |-> P1,
        board |-> [b1 EXCEPT !.current_player = IF @ = "player" THEN "ai" ELSE "player"]]

\* end_turn that leaves the turn counter alone
end_turn_turn_not_counted(P, b) ==
    LET P1 == generate_all_ships(P, b)
        b2 == [b EXCEPT !.current_player = IF @ = "player" THEN "ai" ELSE "player"]
    IN [planets |-> P1, board |-> check_game_over(P1, b2)]

\* end_turn: the heap and the board record afterwards
end_turn(P, b) ==
    LET P1 == generate_all_ships(P, b)
        b1 == [b EXCEPT !.turn = @ + 1]
        b2 == [b1 EXCEPT !.current_player = IF @ = "player" THEN "ai" ELSE "player"]
    IN [planets |-> P1, board |-> check_game_over(P1, b2)]

----------------------------------------------------------------------------
(* pathfinding.py: AStarPathfinder.  A cost a + b*sqrt(2) is the pair      *)
(* <<a, b>>: a orthogonal steps (and heuristic units), b diagonal steps.   *)

Abs(n) == IF n < 0 THEN -n ELSE n

\* x + y*sqrt(2) < 0, decided in integers
SurdNegative(x, y) ==
    IF x < 0 /\ y <= 0 THEN TRUE
    ELSE IF x >= 0 /\ y >= 0 THEN FALSE
    ELSE IF x < 0 THEN x * x > 2 * y * y      \* y > 0: -x > y*sqrt(2)
    ELSE x * x < 2 * y * y                     \* x >= 0, y < 0: x < -y*sqrt(2)

CostLess(c1, c2) == SurdNegative(c1[1] - c2[1], c1[2] - c2[2])
CostAdd(c1, c2) == <<c1[1] + c2[1], c1[2] + c2[2]>>

\* float('inf'), the cost of the empty path
InfCost == <<-1, -1>>

\* heuristic: Manhattan distance
heuristic(pos1, pos2) == Abs(pos1[1] - pos2[1]) + Abs(pos1[2] - pos2[2])

\* euclidean_distance between two neighbouring cells: 1 or sqrt(2)
euclidean_distance(pos1, pos2) ==
    LET sq == (pos1[1] - pos2[1]) * (pos1[1] - pos2[1])
              + (pos1[2] - pos2[2]) * (pos1[2] - pos2[2])
    IN IF sq = 0 THEN <<0, 0>> ELSE IF sq = 1 THEN <<1, 0>> ELSE <<0, 1>>

\* neighbours along rows and columns only
NeighbourOffsets_orthogonal ==
    << <<-1, 0>>, <<0, -1>>, <<0, 1>>, <<1, 0>> >>

\* get_neighbors: for dx in [-1, 0, 1]: for dy in [-1, 0, 1], in that order
NeighbourOffsets ==
    << <<-1, -1>>, <<-1, 0>>, <<-1, 1>>, <<0, -1>>, <<0, 1>>, <<1, -1>>, <<1, 0>>, <<1, 1>> >>

RECURSIVE NeighboursFrom(_, _)
NeighboursFrom(pos, k) ==
    IF k > Len(NeighbourOffsets) THEN <<>>
    ELSE LET nx == pos[1] + NeighbourOffsets[k][1]
             ny == pos[2] + NeighbourOffsets[k][2]
         IN IF 0 <= nx /\ nx < BOARD_SIZE /\ 0 <= ny /\ ny < BOARD_SIZE
            THEN << <<nx, ny>> >> \o NeighboursFrom(pos, k + 1)
            ELSE NeighboursFrom(pos, k + 1)

get_neighbors(pos) == NeighboursFrom(pos, 1)

\* heapq order of the entries (f_score, counter, ...): counters are unique
HeapLess(e1, e2) ==
    \/ CostLess(e1.f, e2.f)
    \/ (~ CostLess(e2.f, e1.f) /\ e1.counter < e2.counter)

\* the pushes of one expansion (lines 73-84), neighbours ns taken in order
RECURSIVE PushNeighbours(_, _, _, _, _, _)
PushNeighbours(open, closed, counter, cur, ns, end_pos) ==
    IF ns = <<>> THEN [open |-> open, counter |-> counter]
    ELSE LET nb == Head(ns)
         IN IF nb \in closed
            THEN PushNeighbours(open, closed, counter, cur, Tail(ns), end_pos)
            ELSE LET new_g == CostAdd(cur.g, euclidean_distance(cur.pos, nb))
                     new_f == CostAdd(new_g, <<heuristic(nb, end_pos), 0>>)
                     entry == [f |-> new_f, counter |-> counter + 1, pos |-> nb,
                               g |-> new_g, path |-> Append(cur.path, nb)]
                 IN PushNeighbours(open \cup {entry}, closed, counter + 1, cur,
                                   Tail(ns), end_pos)

\* the while loop of find_path (lines 62-85)
RECURSIVE AStarLoop(_, _, _, _)
AStarLoop(open, closed, counter, end_pos) ==
    IF open = {} THEN [path |-> <<>>, cost |-> InfCost]
    ELSE LET cur == CHOOSE e \in open : \A o \in open \ {e} : HeapLess(e, o)
             rest == open \ {cur}
         IN IF cur.pos \in closed THEN AStarLoop(rest, closed, counter, end_pos)
            ELSE IF cur.pos = end_pos THEN [path |-> cur.path, cost |-> cur.g]
            ELSE LET pushed == PushNeighbours(rest, closed \cup {cur.pos}, counter, cur,
                                              get_neighbors(cur.pos), end_pos)
                 IN AStarLoop(pushed.open, closed \cup {cur.pos}, pushed.counter, end_pos)

\* find_path(start_pos, end_pos): [path, cost]
find_path(start_pos, end_pos) ==
    IF start_pos = end_pos THEN [path |-> <<start_pos>>, cost |-> <<0, 0>>]
    ELSE AStarLoop({[f |-> <<heuristic(start_pos, end_pos), 0>>, counter |-> 0,
                     pos |-> start_pos, g |-> <<0, 0>>, path |-> <<start_pos>>]},
                   {}, 0, end_pos)

\* find_path depends on the two positions only: its results, computed once
\* (@@ makes TLC build the table instead of keeping the rule)
PathTable == [pq \in Cells \X Cells |-> find_path(pq[1], pq[2])] @@ <<>>

\* get_distance(planet1, planet2)
get_distance(p1, p2) == PathTable[<<get_position(p1), get_position(p2)>>].cost

\* an insertion that puts an item before the items at the same distance
RECURSIVE InsertByDistance_before_ties(_, _)
InsertByDistance_before_ties(sorted, item) ==
    IF sorted = <<>> THEN <<item>>
    ELSE IF ~ CostLess(Head(sorted)[2], item[2])
         THEN <<item>> \o sorted
         ELSE <<Head(sorted)>> \o InsertByDistance_before_ties(Tail(sorted), item)

\* list.sort(key=distance): a stable insertion of (target, dist) pairs
RECURSIVE InsertByDistance(_, _)
InsertByDistance(sorted, item) ==
    IF sorted = <<>> THEN <<item>>
    ELSE IF CostLess(item[2], Head(sorted)[2])
         THEN <<item>> \o sorted
         ELSE <<Head(sorted)>> \o InsertByDistance(Tail(sorted), item)

RECURSIVE SortByDistance(_)
SortByDistance(items) ==
    IF items = <<>> THEN <<>>
    ELSE InsertByDistance(SortByDistance(SubSeq(items, 1, Len(items) - 1)),
                          items[Len(items)])

Take(seq, k) == SubSeq(seq, 1, Min(k, Len(seq)))

\* find_closest_planets(source_planet, target_planets, max_count): the first
\* max_count of the (planet id, distance) pairs sorted by distance
RECURSIVE Distances(_, _, _)
Distances(P, source, targets) ==
    IF targets = <<>> THEN <<>>
    ELSE IF Head(targets) /= source
         THEN << <<Head(targets), get_distance(P[source], P[Head(targets)])>> >>
              \o Distances(P, source, Tail(targets))
         ELSE Distances(P, source, Tail(targets))

find_closest_planets(P, source, targets, max_count) ==
    Take(SortByDistance(Distances(P, source, targets)), max_count)

----------------------------------------------------------------------------
(* fuzzy_logic.py: FuzzyLogic.  Python's floats are modelled by the exact  *)
(* rationals they approximate: a number is a pair <<n, d>>, d > 0, in      *)
(* lowest terms.                                                           *)

RECURSIVE GCD(_, _)
GCD(a, b) == IF b = 0 THEN a ELSE GCD(b, a % b)

Q(n, d) == LET g == GCD(Abs(n), d) IN <<n \div g, d \div g>>
QInt(n) == <<n, 1>>
QAdd(a, b) == Q(a[1] * b[2] + b[1] * a[2], a[2] * b[2])
QSub(a, b) == Q(a[1] * b[2] - b[1] * a[2], a[2] * b[2])
QMul(a, b) == Q(a[1] * b[1], a[2] * b[2])
QDiv(a, b) == Q(a[1] * b[2], a[2] * b[1])          \* b > 0
QLeq(a, b) == a[1] * b[2] <= b[1] * a[2]
QMin(a, b) == IF QLeq(a, b) THEN a ELSE b
QMax(a, b) == IF QLeq(b, a) THEN a ELSE b
\* int(): the values truncated are never negative
QFloor(a) == a[1] \div a[2]

planet_strength_weak(ship_ratio) ==
    IF QLeq(ship_ratio, <<3, 10>>) THEN QInt(1)
    ELSE IF QLeq(ship_ratio, <<6, 10>>)
         THEN QDiv(QSub(<<6, 10>>, ship_ratio), <<3, 10>>)
         ELSE QInt(0)

planet_strength_medium(ship_ratio) ==
    IF QLeq(ship_ratio, <<3, 10>>) THEN QInt(0)
    ELSE IF QLeq(ship_ratio, <<6, 10>>)
         THEN QDiv(QSub(ship_ratio, <<3, 10>>), <<3, 10>>)
    ELSE IF QLeq(ship_ratio, <<9, 10>>)
         THEN QDiv(QSub(<<9, 10>>, ship_ratio), <<3, 10>>)
         ELSE QInt(0)

planet_strength_strong(ship_ratio) ==
    IF QLeq(ship_ratio, <<6, 10>>) THEN QInt(0)
    ELSE IF QLeq(ship_ratio, <<9, 10>>)
         THEN QDiv(QSub(ship_ratio, <<6, 10>>), <<3, 10>>)
         ELSE QInt(1)

strategic_value_low(value) ==
    IF QLeq(value, QInt(2)) THEN QInt(1)
    ELSE IF QLeq(value, QInt(4)) THEN QDiv(QSub(QInt(4), value), QInt(2))
         ELSE QInt(0)

strategic_value_medium(value) ==
    IF QLeq(value, QInt(2)) THEN QInt(0)
    ELSE IF QLeq(value, QInt(4)) THEN QDiv(QSub(value, QInt(2)), QInt(2))
    ELSE IF QLeq(value, QInt(6)) THEN QDiv(QSub(QInt(6), value), QInt(2))
         ELSE QInt(0)

strategic_value_high(value) ==
    IF QLeq(value, QInt(4)) THEN QInt(0)
    ELSE IF QLeq(value, QInt(6)) THEN QDiv(QSub(value, QInt(4)), QInt(2))
         ELSE QInt(1)

game_phase_early(turn) ==
    IF turn <= 10 THEN QInt(1)
    ELSE IF turn <= 20 THEN Q(20 - turn, 10)
         ELSE QInt(0)

game_phase_mid(turn) ==
    IF turn <= 10 THEN QInt(0)
    ELSE IF turn <= 20 THEN Q(turn - 10, 10)
    ELSE IF turn <= 35 THEN Q(35 - turn, 15)
         ELSE QInt(0)

game_phase_late(turn) ==
    IF turn <= 20 THEN QInt(0)
    ELSE IF turn <= 35 THEN Q(turn - 20, 15)
         ELSE QInt(1)

\* a centre of gravity that is 0 when no rule fires
defuzzify_zero_default(low_activation, medium_activation, high_activation) ==
    LET numerator == QAdd(QAdd(QMul(low_activation, <<1, 4>>),
                               QMul(medium_activation, <<1, 2>>)),
                          QMul(high_activation, <<17, 20>>))
        denominator == QAdd(QAdd(low_activation, medium_activation), high_activation)
    IN IF denominator = QInt(0) THEN QInt(0) ELSE QDiv(numerator, denominator)

\* defuzzify: centre of gravity over the centres 0.25, 0.5, 0.85
defuzzify(low_activation, medium_activation, high_activation) ==
    LET numerator == QAdd(QAdd(QMul(low_activation, <<1, 4>>),
                               QMul(medium_activation, <<1, 2>>)),
                          QMul(high_activation, <<17, 20>>))
        denominator == QAdd(QAdd(low_activation, medium_activation), high_activation)
    IN IF denominator = QInt(0) THEN <<1, 2>> ELSE QDiv(numerator, denominator)

center_positions == { <<1, 1>>, <<1, 2>>, <<2, 1>>, <<2, 2>> }

calculate_strategic_value(planet) ==
    LET x == planet.x
        y == planet.y
        v1 == IF <<x, y>> \in center_positions THEN planet.size + 2
              ELSE IF 0 < x /\ x < 3 /\ 0 < y /\ y < 3 THEN planet.size + 1
              ELSE planet.size
    IN IF x = 0 \/ x = 3 \/ y = 0 \/ y = 3
       THEN QMax(QInt(1), QSub(QInt(v1), <<1, 2>>))
       ELSE QInt(v1)

\* evaluate_attack(source, target, owner); fb is self.board, the board the
\* FuzzyLogic object was constructed with
evaluate_attack(fb, source, target) ==
    LET ship_ratio == IF source.ships = 0 THEN QInt(1) ELSE Q(target.ships, source.ships)
        strategic_value == calculate_strategic_value(target)
        current_turn == (fb.turn \div 2) + 1
        weak == planet_strength_weak(ship_ratio)
        medium_strength == planet_strength_medium(ship_ratio)
        strong == planet_strength_strong(ship_ratio)
        low_value == strategic_value_low(strategic_value)
        medium_value == strategic_value_medium(strategic_value)
        high_value == strategic_value_high(strategic_value)
        early == game_phase_early(current_turn)
        mid == game_phase_mid(current_turn)
        late == game_phase_late(current_turn)
        low1 == QMax(QInt(0), strong)                                   \* rule 1
        high2 == QMax(QInt(0), QMin(weak, high_value))                  \* rule 2
        medium3 == QMax(QInt(0), QMin(weak, low_value))                 \* rule 3
        medium4 == QMax(medium3, QMin(medium_strength, high_value))     \* rule 4
        low5 == QMax(low1, QMin(medium_strength, low_value))            \* rule 5
        high6 == QMax(high2, QMin(early, weak))                         \* rule 6
        high7 == QMax(high6, QMin(late, QMin(weak, high_value)))        \* rule 7
        low8 == QMax(low5, QMin(late, strong))                          \* rule 8
        medium9 == QMax(medium4, QMin(mid, medium_value))               \* rule 9
    IN defuzzify(low8, medium9, high7)

\* a recommendation without the final clamp to 1 .. available_ships
get_ship_count_recommendation_unclamped(source, target, owner, aggressiveness) ==
    LET available_ships == source.ships - 1
        needed_to_capture == target.ships + 1
    IN IF available_ships <= 0 THEN 0
       ELSE IF target.owner = owner
            THEN QFloor(QMul(QInt(available_ships), aggressiveness))
       ELSE IF QLeq(<<7, 10>>, aggressiveness)
            THEN Min(available_ships, QFloor(QMul(QInt(needed_to_capture), <<3, 2>>)))
       ELSE IF QLeq(<<4, 10>>, aggressiveness)
            THEN Min(available_ships, QFloor(QMul(QInt(needed_to_capture), <<6, 5>>)))
       ELSE IF needed_to_capture < available_ships
            THEN needed_to_capture
            ELSE 0

\* get_ship_count_recommendation(source, target, owner, aggressiveness)
get_ship_count_recommendation(source, target, owner, aggressiveness) ==
    LET available_ships == source.ships - 1
        needed_to_capture == target.ships + 1
    IN IF available_ships <= 0 THEN 0
       ELSE IF target.owner = owner
            THEN Max(1, Min(QFloor(QMul(QInt(available_ships), aggressiveness)),
                            available_ships))
       ELSE IF QLeq(<<7, 10>>, aggressiveness)
            THEN Max(1, Min(Min(available_ships,
                                QFloor(QMul(QInt(needed_to_capture), <<3, 2>>))),
                            available_ships))
       ELSE IF QLeq(<<4, 10>>, aggressiveness)
            THEN Max(1, Min(Min(available_ships,
                                QFloor(QMul(QInt(needed_to_capture), <<6, 5>>))),
                            available_ships))
       ELSE IF needed_to_capture < available_ships
            THEN Max(1, Min(needed_to_capture, available_ships))
            ELSE 0

----------------------------------------------------------------------------
(* minimax_ai.py: MinimaxAI.  A score is <<k, whole, n, d>>: k = -1 for    *)
(* float('-inf'), k = 1 for float('inf'), and for k = 0 the number         *)
(* whole + n/d with 0 <= n < d.                                            *)

NegInf == <<-1, 0, 0, 1>>
PosInf == <<1, 0, 0, 1>>
Finite(whole) == <<0, whole, 0, 1>>

\* a/b < c/d for a, c >= 0 and b, d > 0, by continued fractions
RECURSIVE FracLess(_, _, _, _)
FracLess(a, b, c, d) ==
    IF a \div b /= c \div d THEN a \div b < c \div d
    ELSE IF c % d = 0 THEN FALSE
    ELSE IF a % b = 0 THEN TRUE
    ELSE FracLess(d, c % d, b, a % b)

ScoreLess(s, t) ==
    \/ s[1] < t[1]
    \/ s[1] = 0 /\ t[1] = 0 /\ s[2] < t[2]
    \/ s[1] = 0 /\ t[1] = 0 /\ s[2] = t[2] /\ FracLess(s[3], s[4], t[3], t[4])

ScoreMax(s, t) == IF ScoreLess(s, t) THEN t ELSE s
ScoreMin(s, t) == IF ScoreLess(t, s) THEN t ELSE s

\* eval_score + aggressiveness * 10, eval_score finite
AddBonus(s, aggressiveness) ==
    LET f == QAdd(<<s[3], s[4]>>, QMul(aggressiveness, QInt(10)))
    IN <<0, s[2] + QFloor(f), f[1] % f[2], f[2]>>

\* a depth that a call already made cuts down to 1
max_depth_after_call(difficulty) ==
    IF call.op = "get_best_move" THEN 1
    ELSE IF difficulty = "easy" THEN 1 ELSE IF difficulty = "medium" THEN 2 ELSE 3

\* a depth one short of the difficulty's
max_depth_less_one(difficulty) ==
    IF difficulty = "easy" THEN 0 ELSE IF difficulty = "medium" THEN 1 ELSE 2

\* MinimaxAI.__init__: the search depth of a difficulty
max_depth(difficulty) ==
    IF difficulty = "easy" THEN 1 ELSE IF difficulty = "medium" THEN 2 ELSE 3

Difficulties == {"easy", "medium", "hard"}

RECURSIVE SumSeq(_)
SumSeq(s) == IF s = <<>> THEN 0 ELSE Head(s) + SumSeq(Tail(s))

\* an evaluation always made from the side of 'ai', whoever searches
evaluate_board_for_ai(P, b, owner) ==
    LET opponent == "player"
        owner_planets == get_player_planets(P, b, "ai")
        opponent_planets == get_player_planets(P, b, opponent)
        ships(ids) == SumSeq([i \in DOMAIN ids |-> P[ids[i]].ships])
        production(ids) == SumSeq([i \in DOMAIN ids |-> P[ids[i]].size])
        center(ids) == SumSeq([i \in DOMAIN ids |->
                          IF get_position(P[ids[i]]) \in center_positions THEN 1 ELSE 0])
        neutral_count == Len(get_player_planets(P, b, None))
    IN IF Len(owner_planets) = 0 THEN -10000
       ELSE IF Len(opponent_planets) = 0 THEN 10000
       ELSE IF Len(owner_planets) >= 12 THEN 10000
       ELSE IF Len(opponent_planets) >= 12 THEN -10000
       ELSE (Len(owner_planets) - Len(opponent_planets)) * 100
            + (ships(owner_planets) - ships(opponent_planets)) * 10
            + (production(owner_planets) - production(opponent_planets)) * 50
            + (center(owner_planets) - center(opponent_planets)) * 30
            + neutral_count * 5

\* evaluate_board(board) for the AI instance that controls owner
evaluate_board(P, b, owner) ==
    LET opponent == IF owner = "ai" THEN "player" ELSE "ai"
        owner_planets == get_player_planets(P, b, owner)
        opponent_planets == get_player_planets(P, b, opponent)
        ships(ids) == SumSeq([i \in DOMAIN ids |-> P[ids[i]].ships])
        production(ids) == SumSeq([i \in DOMAIN ids |-> P[ids[i]].size])
        center(ids) == SumSeq([i \in DOMAIN ids |->
                          IF get_position(P[ids[i]]) \in center_positions THEN 1 ELSE 0])
        neutral_count == Len(get_player_planets(P, b, None))
    IN IF Len(owner_planets) = 0 THEN -10000
       ELSE IF Len(opponent_planets) = 0 THEN 10000
       ELSE IF Len(owner_planets) >= 12 THEN 10000
       ELSE IF Len(opponent_planets) >= 12 THEN -10000
       ELSE (Len(owner_planets) - Len(opponent_planets)) * 100
            + (ships(owner_planets) - ships(opponent_planets)) * 10
            + (production(owner_planets) - production(opponent_planets)) * 50
            + (center(owner_planets) - center(opponent_planets)) * 30
            + neutral_count * 5

\* an insertion that sorts the moves by increasing aggressiveness
RECURSIVE InsertByAggressiveness_ascending(_, _)
InsertByAggressiveness_ascending(sorted, move) ==
    IF sorted = <<>> THEN <<move>>
    ELSE IF ~ QLeq(Head(sorted)[4], move[4])
         THEN <<move>> \o sorted
         ELSE <<Head(sorted)>> \o InsertByAggressiveness_ascending(Tail(sorted), move)

\* moves.sort(key=aggressiveness, reverse=True): stable, a move is
\* <<source, target, recommended_ships, aggressiveness>>
RECURSIVE InsertByAggressiveness(_, _)
InsertByAggressiveness(sorted, move) ==
    IF sorted = <<>> THEN <<move>>
    ELSE IF ~ QLeq(move[4], Head(sorted)[4])
         THEN <<move>> \o sorted
         ELSE <<Head(sorted)>> \o InsertByAggressiveness(Tail(sorted), move)

RECURSIVE SortByAggressiveness(_)
SortByAggressiveness(moves) ==
    IF moves = <<>> THEN <<>>
    ELSE InsertByAggressiveness(SortByAggressiveness(SubSeq(moves, 1, Len(moves) - 1)),
                                moves[Len(moves)])

\* the inner loop of get_possible_moves (lines 118-128) over closest_targets
RECURSIVE MovesTo(_, _, _, _, _)
MovesTo(fb, P, player, source, closest_targets) ==
    IF closest_targets = <<>> THEN <<>>
    ELSE LET target == Head(closest_targets)[1]
             aggressiveness == evaluate_attack(fb, P[source], P[target])
             recommended_ships ==
                 get_ship_count_recommendation(P[source], P[target], player, aggressiveness)
             rest == MovesTo(fb, P, player, source, Tail(closest_targets))
         IN IF recommended_ships > 0
            THEN << <<source, target, recommended_ships, aggressiveness>> >> \o rest
            ELSE rest

\* the outer loop of get_possible_moves (lines 110-128) over owned_planets
RECURSIVE MovesOf(_, _, _, _, _)
MovesOf(fb, P, b, player, owned_planets) ==
    IF owned_planets = <<>> THEN <<>>
    ELSE LET source == Head(owned_planets)
             all_targets == SelectSeq(b.planets, LAMBDA p : p /= source)
             closest_targets == find_closest_planets(P, source, all_targets, 8)
             rest == MovesOf(fb, P, b, player, Tail(owned_planets))
         IN IF P[source].ships <= 1 THEN rest
            ELSE MovesTo(fb, P, player, source, closest_targets) \o rest

\* get_possible_moves(board, player); fb is the board of self.fuzzy
get_possible_moves(fb, P, b, player) ==
    SortByAggressiveness(MovesOf(fb, P, b, player, get_player_planets(P, b, player)))

\* a copy that shares the Planet objects of the board copied
copy_board_shallow(P, b, nb) ==
    [planets |-> P,
     board |-> [grid |-> b.grid, planets |-> b.planets,
                turn |-> b.turn, current_player |-> b.current_player,
                game_over |-> FALSE, winner |-> None]]

\* copy_board(board): board nb with 16 new Planet objects; the heap and the
\* new board record
copy_board(P, b, nb) ==
    LET fresh == [id \in {PlanetId(nb, c[1], c[2]) : c \in Cells} |->
                     LET c == CellOrder[id - nb * (BOARD_SIZE * BOARD_SIZE)]
                         old_planet == P[b.grid[c]]
                     IN [Planet(c[1], c[2], old_planet.size, old_planet.owner)
                            EXCEPT !.ships = old_planet.ships,
                                   !.max_ships = old_planet.max_ships]]
    IN [planets |-> fresh @@ P,
        board |-> [grid |-> [c \in Cells |-> PlanetId(nb, c[1], c[2])],
                   planets |-> [i \in 1 .. (BOARD_SIZE * BOARD_SIZE) |->
                                   PlanetId(nb, CellOrder[i][1], CellOrder[i][2])],
                   turn |-> b.turn, current_player |-> b.current_player,
                   game_over |-> FALSE, winner |-> None]]

\* a simulation in which equal forces go to the attacker
simulate_move_tie_captures(P, b, nb, source, target, ships) ==
    LET c == copy_board(P, b, nb)
        new_source == c.board.grid[<<P[source].x, P[source].y>>]
        new_target == c.board.grid[<<P[target].x, P[target].y>>]
        P1 == [c.planets EXCEPT ![new_source] = remove_ships(@, ships)]
        P2 == IF P1[new_target].owner = P1[new_source].owner
              THEN [P1 EXCEPT ![new_target] = add_ships(@, ships)]
              ELSE IF ships >= P1[new_target].ships
                   THEN [P1 EXCEPT ![new_target].owner = P1[new_source].owner,
                                   ![new_target].ships = ships - P1[new_target].ships]
                   ELSE [P1 EXCEPT ![new_target] = remove_ships(@, ships)]
    IN [planets |-> P2, board |-> c.board]

\* a simulation that ends the turn on the new board after the move
simulate_move_ends_turn(P, b, nb, source, target, ships) ==
    LET c == copy_board(P, b, nb)
        new_source == c.board.grid[<<P[source].x, P[source].y>>]
        new_target == c.board.grid[<<P[target].x, P[target].y>>]
        P1 == [c.planets EXCEPT ![new_source] = remove_ships(@, ships)]
        P2 == IF P1[new_target].owner = P1[new_source].owner
              THEN [P1 EXCEPT ![new_target] = add_ships(@, ships)]
              ELSE IF ships > P1[new_target].ships
                   THEN [P1 EXCEPT ![new_target].owner = P1[new_source].owner,
                                   ![new_target].ships = ships - P1[new_target].ships]
                   ELSE [P1 EXCEPT ![new_target] = remove_ships(@, ships)]
    IN end_turn(P2, c.board)

\* simulate_move(board, source, target, ships): the heap with the new board's
\* planets after the move, and the new board record
simulate_move(P, b, nb, source, target, ships) ==
    LET c == copy_board(P, b, nb)
        new_source == c.board.grid[<<P[source].x, P[source].y>>]
        new_target == c.board.grid[<<P[target].x, P[target].y>>]
        P1 == [c.planets EXCEPT ![new_source] = remove_ships(@, ships)]
        P2 == IF P1[new_target].owner = P1[new_source].owner
              THEN [P1 EXCEPT ![new_target] = add_ships(@, ships)]
              ELSE IF ships > P1[new_target].ships
                   THEN [P1 EXCEPT ![new_target].owner = P1[new_source].owner,
                                   ![new_target].ships = ships - P1[new_target].ships]
                   ELSE [P1 EXCEPT ![new_target] = remove_ships(@, ships)]
    IN [planets |-> P2, board |-> c.board]

----------------------------------------------------------------------------
(* The calls made on the live board *)

NoCall == [op |-> "init"]

\* What attack reads of its arguments: the source's owner and ships and the
\* count always (validation); the target's fields only once validation passed.
AttackRead(P, b, source, target, ship_count) ==
    [op |-> "attack", ship_count |-> ship_count,
     source_owner |-> P[source].owner, source_ships |-> P[source].ships,
     same_planet |-> attack_valid(P, b, source, ship_count) /\ source = target,
     target_owner |-> IF attack_valid(P, b, source, ship_count) THEN P[target].owner ELSE None,
     target_ships |-> IF attack_valid(P, b, source, ship_count) THEN P[target].ships ELSE 0,
     target_max_ships |-> IF attack_valid(P, b, source, ship_count) THEN P[target].max_ships ELSE 0,
     ret |-> attack(P, b, source, target, ship_count).ret]

\* board.attack(source, target, ship_count) on the live board
DoAttack(sc, tc, ship_count) ==
    LET b == boards[LIVE]
        source == b.grid[sc]
        target == b.grid[tc]
    IN /\ planets' = attack(planets, b, source, target, ship_count).planets
       /\ call' = AttackRead(planets, b, source, target, ship_count)
       /\ UNCHANGED boards

\* board.end_turn() on the live board
DoEndTurn ==
    LET r == end_turn(planets, boards[LIVE])
    IN /\ planets' = r.planets
       /\ boards' = [boards EXCEPT ![LIVE] = r.board]
       /\ call' = [op |-> "end_turn"]

\* An opening is a sequence of calls made on the new board before the explored
\* calls: <<"attack", source cell, target cell, ship_count>> or <<"end_turn">>.
Times(c, k) == [i \in 1 .. k |-> c]

\* The player takes three neutral planets, the ai one, and both pass until turn 29
OpeningLate ==
    << <<"attack", <<0, 0>>, <<2, 0>>, 1>>, <<"attack", <<0, 0>>, <<0, 1>>, 1>>,
       <<"attack", <<0, 0>>, <<1, 2>>, 1>>, <<"end_turn">>,
       <<"attack", <<3, 3>>, <<3, 2>>, 1>>, <<"end_turn">> >>
    \o Times(<<"end_turn">>, MAX_TURNS - 3)

\* Both sides pass until turn 28
OpeningPass == Times(<<"end_turn">>, MAX_TURNS - 2)

\* The player takes nine neutral planets in the first turn (11 owned)
OpeningExpand ==
    << <<"attack", <<0, 0>>, <<3, 0>>, 1>>, <<"attack", <<0, 0>>, <<0, 1>>, 1>>,
       <<"attack", <<0, 0>>, <<2, 1>>, 1>>, <<"attack", <<0, 0>>, <<3, 1>>, 1>>,
       <<"attack", <<0, 0>>, <<0, 2>>, 1>>, <<"attack", <<0, 0>>, <<1, 2>>, 1>>,
       <<"attack", <<0, 0>>, <<2, 2>>, 1>>, <<"attack", <<0, 0>>, <<3, 2>>, 1>>,
       <<"attack", <<0, 0>>, <<0, 3>>, 1>> >>

\* The player takes (2,3) and wears (3,3) down; both pass one round
OpeningRush ==
    << <<"attack", <<0, 0>>, <<2, 3>>, 9>>, <<"attack", <<1, 0>>, <<3, 3>>, 7>>,
       <<"end_turn">>, <<"end_turn">>,
       <<"attack", <<0, 0>>, <<3, 3>>, 2>> >>

\* OpeningLate and the end_turn that reaches the turn limit: the game is over
OpeningOver == Append(OpeningLate, <<"end_turn">>)

\* OpeningRush and a last attack from (2,3) on (3,3): on planets of size 1 the
\* ai is left with no planet
OpeningConquer == Append(OpeningRush, <<"attack", <<2, 3>>, <<3, 3>>, 2>>)

Openings == { <<>>, OpeningLate, OpeningPass, OpeningExpand, OpeningRush, OpeningOver,
              OpeningConquer }

\* The cells the explored attack calls name: both sides' starting planets
\* and a centre cell
AttackCells == { <<0, 0>>, <<1, 0>>, <<1, 1>>, <<2, 3>>, <<3, 3>> }

\* No get_best_move call is running
NoAI == [owner |-> None]

\* Python's None where a move (source, target, ships) is expected
NoMove == <<>>

\* The fields of the live board and of its planets, cell by cell
BoardValue(P, b) ==
    [turn |-> b.turn, current_player |-> b.current_player,
     game_over |-> b.game_over, winner |-> b.winner,
     cells |-> [c \in Cells |-> P[b.grid[c]]]]

\* an activation whose best score starts at 0 instead of -inf / inf
Frame_from_zero(board, depth, alpha, beta, is_maximizing) ==
    [board |-> board, depth |-> depth, alpha |-> alpha, beta |-> beta,
     is_maximizing |-> is_maximizing, pc |-> "call",
     possible_moves |-> <<>>, i |-> 0,
     best_eval |-> Finite(0), best_move |-> NoMove,
     ret |-> [eval |-> Finite(0), move |-> NoMove]]

\* One activation of minimax(board, depth, alpha, beta, is_maximizing).  pc is
\* where it stands: "call" (entered), "loop" (at the head of the for loop,
\* about to take possible_moves[i]), "wait" (in the recursive call) and
\* "return" (returning ret).  best_eval is max_eval or min_eval.
Frame(board, depth, alpha, beta, is_maximizing) ==
    [board |-> board, depth |-> depth, alpha |-> alpha, beta |-> beta,
     is_maximizing |-> is_maximizing, pc |-> "call",
     possible_moves |-> <<>>, i |-> 0,
     best_eval |-> IF is_maximizing THEN NegInf ELSE PosInf, best_move |-> NoMove,
     ret |-> [eval |-> Finite(0), move |-> NoMove]]

Top == stack[Len(stack)]

\* minimax lines 215-226: the base cases, or the candidate moves of the node
minimax_enter(fb, P, b, owner, f) ==
    LET current_player == IF f.is_maximizing THEN owner
                          ELSE (IF owner = "ai" THEN "player" ELSE "ai")
        possible_moves == get_possible_moves(fb, P, b, current_player)
        evaluated == [f EXCEPT !.pc = "return",
                               !.ret = [eval |-> Finite(evaluate_board(P, b, owner)),
                                        move |-> NoMove]]
    IN IF f.depth = 0 \/ b.game_over THEN evaluated
       ELSE IF possible_moves = <<>> THEN evaluated
       ELSE [f EXCEPT !.pc = "loop", !.possible_moves = possible_moves, !.i = 1]

\* minimax lines 238-249 and 261-269: the activation f takes the score of the
\* child it was waiting for, then goes on with the loop or returns
minimax_resume(f, child_eval) ==
    LET move == f.possible_moves[f.i]
        eval_score == IF f.is_maximizing THEN AddBonus(child_eval, move[4]) ELSE child_eval
        better == IF f.is_maximizing THEN ScoreLess(f.best_eval, eval_score)
                  ELSE ScoreLess(eval_score, f.best_eval)
        f1 == IF better
              THEN [f EXCEPT !.best_eval = eval_score,
                             !.best_move = <<move[1], move[2], move[3]>>]
              ELSE f
        f2 == IF f.is_maximizing
              THEN [f1 EXCEPT !.alpha = ScoreMax(f.alpha, eval_score)]
              ELSE [f1 EXCEPT !.beta = ScoreMin(f.beta, eval_score)]
        cutoff == ~ ScoreLess(f2.alpha, f2.beta)           \* beta <= alpha
    IN IF cutoff \/ f.i = Len(f.possible_moves)
       THEN [f2 EXCEPT !.pc = "return",
                       !.ret = [eval |-> f2.best_eval, move |-> f2.best_move]]
       ELSE [f2 EXCEPT !.pc = "loop", !.i = f.i + 1]

\* The boards and planets still referenced once board nb is dropped
DropBoard(B, nb) == [b \in DOMAIN B \ {nb} |-> B[b]]
DropPlanets(P, B) ==
    [id \in {i \in DOMAIN P : \E b \in DOMAIN B : \E c \in Cells : B[b].grid[c] = i}
        |-> P[id]]

\* ai.get_best_move() of the instance MinimaxAI(board, difficulty, owner):
\* the call of minimax on the live board
GetBestMoveCall(owner, difficulty) ==
    /\ opening = <<>>
    /\ stack = <<>>
    /\ ai' = [owner |-> owner, difficulty |-> difficulty,
              max_depth |-> max_depth(difficulty)]
    /\ stack' = << Frame(LIVE, max_depth(difficulty), NegInf, PosInf, TRUE) >>
    /\ call' = [op |-> "get_best_move", owner |-> owner, difficulty |-> difficulty,
                before |-> BoardValue(planets, boards[LIVE]),
                done |-> FALSE, ret |-> NoMove, score |-> Finite(0)]
    /\ UNCHANGED <<planets, boards, opening, attack_calls, end_turn_calls>>

\* The call of get_best_move that has just returned is made again, by the same
\* instance on the same live board; first is what the first call returned
RepeatBestMoveCall ==
    /\ opening = <<>>
    /\ stack = <<>>
    /\ call.op = "get_best_move"
    /\ call.done
    /\ ai' = [owner |-> call.owner, difficulty |-> call.difficulty,
              max_depth |-> max_depth(call.difficulty)]
    /\ stack' = << Frame(LIVE, max_depth(call.difficulty), NegInf, PosInf, TRUE) >>
    /\ call' = [op |-> "get_best_move", owner |-> call.owner,
                difficulty |-> call.difficulty,
                before |-> BoardValue(planets, boards[LIVE]),
                done |-> FALSE, ret |-> NoMove, score |-> Finite(0),
                first |-> [before |-> call.before, ret |-> call.ret,
                           score |-> call.score]]
    /\ UNCHANGED <<planets, boards, opening, attack_calls, end_turn_calls>>

\* The activation on top of the stack enters minimax
MinimaxEnter ==
    /\ stack /= <<>>
    /\ Top.pc = "call"
    /\ stack' = [stack EXCEPT ![Len(stack)] =
                    minimax_enter(boards[LIVE], planets, boards[Top.board], ai.owner, Top)]
    /\ UNCHANGED <<planets, boards, call, opening, attack_calls, end_turn_calls, ai>>

\* The activation on top of the stack simulates its next move and calls minimax
\* on the new board (lines 233-236, 256-259)
MinimaxSimulate ==
    /\ stack /= <<>>
    /\ Top.pc = "loop"
    /\ LET move == Top.possible_moves[Top.i]
           nb == Len(stack)
           r == simulate_move(planets, boards[Top.board], nb, move[1], move[2], move[3])
       IN /\ planets' = r.planets
          /\ boards' = (nb :> r.board) @@ boards
          /\ stack' = Append([stack EXCEPT ![Len(stack)].pc = "wait"],
                             Frame(nb, Top.depth - 1, Top.alpha, Top.beta,
                                   ~ Top.is_maximizing))
    /\ UNCHANGED <<call, opening, attack_calls, end_turn_calls, ai>>

\* The activation on top of the stack returns: to the activation that called
\* it, which drops the simulated board, or to get_best_move
MinimaxReturn ==
    /\ stack /= <<>>
    /\ Top.pc = "return"
    /\ IF Len(stack) = 1
       THEN /\ stack' = <<>>
            /\ ai' = NoAI
            /\ call' = [call EXCEPT !.done = TRUE, !.ret = Top.ret.move,
                                    !.score = Top.ret.eval]
            /\ UNCHANGED <<planets, boards>>
       ELSE /\ stack' = [SubSeq(stack, 1, Len(stack) - 1) EXCEPT ![Len(stack) - 1] =
                            minimax_resume(stack[Len(stack) - 1], Top.ret.eval)]
            /\ boards' = DropBoard(boards, Top.board)
            /\ planets' = DropPlanets(planets, DropBoard(boards, Top.board))
            /\ UNCHANGED <<ai, call>>
    /\ UNCHANGED <<opening, attack_calls, end_turn_calls>>

\* ai.copy_board(board) called on the live board; the copy is handed to the
\* caller, cell by cell, with the Planet objects it is made of
CopyBoardCall ==
    /\ opening = <<>>
    /\ stack = <<>>
    /\ LET r == copy_board(planets, boards[LIVE], 1)
       IN call' = [op |-> "copy_board",
                   new_board |-> BoardValue(r.planets, r.board),
                   new_planets |-> {r.board.grid[c] : c \in Cells}]
    /\ UNCHANGED <<planets, boards, opening, attack_calls, end_turn_calls, ai, stack>>

Init ==
    /\ \E sz \in SizeLayouts : planets = initialize_board(sz)
    /\ boards = [b \in {LIVE} |-> NewBoard(LIVE)]
    /\ call = NoCall
    /\ opening \in Openings
    /\ attack_calls = 0
    /\ end_turn_calls = 0
    /\ ai = NoAI
    /\ stack = <<>>

\* The next call of the opening
OpeningStep ==
    /\ opening /= <<>>
    /\ LET c == Head(opening)
       IN IF c[1] = "attack" THEN DoAttack(c[2], c[3], c[4]) ELSE DoEndTurn
    /\ opening' = Tail(opening)
    /\ UNCHANGED <<attack_calls, end_turn_calls, ai, stack>>

AttackCall(sc, tc, ship_count) ==
    /\ opening = <<>>
    /\ stack = <<>>
    /\ attack_calls < MaxAttacks
    /\ DoAttack(sc, tc, ship_count)
    /\ attack_calls' = attack_calls + 1
    /\ UNCHANGED <<opening, end_turn_calls, ai, stack>>

EndTurnCall ==
    /\ opening = <<>>
    /\ stack = <<>>
    /\ end_turn_calls < MaxEndTurns
    /\ DoEndTurn
    /\ end_turn_calls' = end_turn_calls + 1
    /\ UNCHANGED <<opening, attack_calls, ai, stack>>

Next ==
    \/ OpeningStep
    \/ \E sc \in AttackCells, tc \in AttackCells, n \in 0 .. MaxShipCount : AttackCall(sc, tc, n)
    \/ EndTurnCall

Spec == Init /\ [][Next]_vars

\* The calls of the search made on the board the opening has left
NextSearch ==
    \/ OpeningStep
    \/ \E owner \in Owners, difficulty \in Difficulties : GetBestMoveCall(owner, difficulty)
    \/ MinimaxEnter
    \/ MinimaxSimulate
    \/ MinimaxReturn
    \/ CopyBoardCall

SpecSearch == Init /\ [][NextSearch]_vars

\* A game on the mixed layout
InitRepeat ==
    /\ Init
    /\ \A id \in DOMAIN planets :
          planets[id].size = ((planets[id].x + 2 * planets[id].y) % 3) + 1

\* Every call of the search may be made a second time
NextRepeat ==
    \/ OpeningStep
    \/ \E owner \in Owners, difficulty \in Difficulties : GetBestMoveCall(owner, difficulty)
    \/ RepeatBestMoveCall
    \/ MinimaxEnter
    \/ MinimaxSimulate
    \/ MinimaxReturn

SpecRepeat == InitRepeat /\ [][NextRepeat]_vars

----------------------------------------------------------------------------
(* The calls made on the pathfinder of a new board *)

\* board.planets, the planets in creation order
BoardPlanets == [i \in DOMAIN CellOrder |-> boards[LIVE].grid[CellOrder[i]]]

Reverse(s) == [i \in DOMAIN s |-> s[Len(s) + 1 - i]]
Rotate(s, r) == [i \in DOMAIN s |-> s[((i - 1 + r) % Len(s)) + 1]]

\* The candidate lists passed to find_closest_planets: board.planets from any
\* planet on, forwards or backwards, and every list of at most two planets of
\* the first row
CandidateLists ==
    LET ids == {BoardPlanets[i] : i \in 1 .. BOARD_SIZE}
    IN {Rotate(BoardPlanets, r) : r \in 0 .. (Len(BoardPlanets) - 1)}
       \cup {Reverse(Rotate(BoardPlanets, r)) : r \in 0 .. (Len(BoardPlanets) - 1)}
       \cup {<<a, b>> : a \in ids, b \in ids}
       \cup {<<a>> : a \in ids}
       \cup {<<>>}

\* The pathfinder keeps no state between calls: one call is explored.
\* pathfinder.find_path(start_pos, end_pos)
FindPathCall ==
    /\ call = NoCall
    /\ \E start_pos \in Cells, end_pos \in Cells :
          call' = [op |-> "find_path", start_pos |-> start_pos, end_pos |-> end_pos,
                   ret |-> find_path(start_pos, end_pos)]
    /\ UNCHANGED <<planets, boards, opening, attack_calls, end_turn_calls, ai, stack>>

\* pathfinder.find_closest_planets(source_planet, target_planets, max_count)
FindClosestCall ==
    /\ call = NoCall
    /\ \E i \in DOMAIN BoardPlanets, targets \in CandidateLists, max_count \in 0 .. MaxCount :
          call' = [op |-> "find_closest_planets", source |-> BoardPlanets[i],
                   targets |-> targets, max_count |-> max_count,
                   ret |-> find_closest_planets(planets, BoardPlanets[i], targets, max_count)]
    /\ UNCHANGED <<planets, boards, opening, attack_calls, end_turn_calls, ai, stack>>

\* A new board; the pathfinder reads the planets' positions only
InitPath ==
    /\ Init
    /\ opening = <<>>
    /\ \A id \in DOMAIN planets : planets[id].size = 1

NextPath ==
    \/ FindPathCall
    \/ FindClosestCall

SpecPath == InitPath /\ [][NextPath]_vars

----------------------------------------------------------------------------
(* The calls made on the FuzzyLogic object of a board *)

\* A planet that holds the given ships
PlanetWith(cell, size, owner, ships) ==
    [Planet(cell[1], cell[2], size, owner) EXCEPT !.ships = ships]

\* The aggressiveness arguments tried: the twentieths of [0, 1]
AggressivenessValues == {Q(k, 20) : k \in 0 .. 20}

\* The fuzzy object keeps no state between calls: one call is explored.
\* fuzzy.evaluate_attack(source, target, owner) on a board at the given turn
EvaluateAttackCall ==
    /\ call = NoCall
    /\ \E source_ships \in 0 .. MaxShipCount, target_ships \in 0 .. MaxShipCount,
          cell \in AttackCells, size \in 1 .. 3, turn \in 0 .. MAX_TURNS :
          LET source == PlanetWith(<<0, 0>>, 1, "player", source_ships)
              target == PlanetWith(cell, size, None, target_ships)
              fb == [boards[LIVE] EXCEPT !.turn = turn]
          IN call' = [op |-> "evaluate_attack", source |-> source, target |-> target,
                      turn |-> turn, ret |-> evaluate_attack(fb, source, target)]
    /\ UNCHANGED <<planets, boards, opening, attack_calls, end_turn_calls, ai, stack>>

\* fuzzy.get_ship_count_recommendation(source, target, owner, aggressiveness)
RecommendCall ==
    /\ call = NoCall
    /\ \E source_ships \in 0 .. MaxShipCount, target_ships \in 0 .. MaxShipCount,
          target_owner \in Owners \cup {None}, owner \in Owners,
          aggressiveness \in AggressivenessValues :
          LET source == PlanetWith(<<0, 0>>, 1, owner, source_ships)
              target == PlanetWith(<<1, 1>>, 1, target_owner, target_ships)
          IN call' = [op |-> "get_ship_count_recommendation", source |-> source,
                      target |-> target, owner |-> owner,
                      aggressiveness |-> aggressiveness,
                      ret |-> get_ship_count_recommendation(source, target, owner,
                                                            aggressiveness)]
    /\ UNCHANGED <<planets, boards, opening, attack_calls, end_turn_calls, ai, stack>>

\* A new board; the calls are given their planets and turn
InitFuzzy ==
    /\ Init
    /\ opening = <<>>
    /\ \A id \in DOMAIN planets : planets[id].size = 1

NextFuzzy ==
    \/ EvaluateAttackCall
    \/ RecommendCall

SpecFuzzy == InitFuzzy /\ [][NextFuzzy]_vars

----------------------------------------------------------------------------
(* The search on a board set up with one planet a side *)

\* The planets of a board on which side_a holds only (0,0) and the other side
\* only (3,3), 10 ships each, every other planet neutral of size 2 and empty
ScenarioPlanets(side_a, size_a, size_b) ==
    LET fresh == [id \in 1 .. (BOARD_SIZE * BOARD_SIZE) |->
                    Planet(CellOrder[id][1], CellOrder[id][2], 2, None)]
        side_b == IF side_a = "ai" THEN "player" ELSE "ai"
    IN [fresh EXCEPT ![PlanetId(LIVE, 0, 0)] =
                         [Planet(0, 0, size_a, side_a) EXCEPT !.ships = 10],
                     ![PlanetId(LIVE, 3, 3)] =
                         [Planet(3, 3, size_b, side_b) EXCEPT !.ships = 10]]

InitScenario ==
    /\ \E side_a \in Owners, size_a \in 1 .. 3, size_b \in 1 .. 3 :
          planets = ScenarioPlanets(side_a, size_a, size_b)
    /\ boards = [b \in {LIVE} |-> NewBoard(LIVE)]
    /\ call = NoCall
    /\ opening = <<>>
    /\ attack_calls = 0
    /\ end_turn_calls = 0
    /\ ai = NoAI
    /\ stack = <<>>

\* get_best_move of an easy instance, for either side
NextScenario ==
    \/ \E owner \in Owners : GetBestMoveCall(owner, "easy")
    \/ MinimaxEnter
    \/ MinimaxSimulate
    \/ MinimaxReturn

SpecScenario == InitScenario /\ [][NextScenario]_vars

----------------------------------------------------------------------------
(* simulate_move called on the live board, beside the attack it stands for *)

\* ai.simulate_move(board, source, target, ships) on the live board: the new
\* board is handed to the caller; attacked is a board identical to the live one
\* after board.attack(source, target, ships), accepted whether attack took it.
\* The call leaves the live board as it is: one call is explored per board.
SimulateMoveCall(sc, tc, ships) ==
    /\ opening = <<>>
    /\ stack = <<>>
    /\ call.op /= "simulate_move"
    /\ LET b == boards[LIVE]
           source == b.grid[sc]
           target == b.grid[tc]
           r == simulate_move(planets, b, 1, source, target, ships)
           a == attack(planets, b, source, target, ships)
       IN call' = [op |-> "simulate_move", source |-> sc, target |-> tc, ships |-> ships,
                   before |-> BoardValue(planets, b),
                   new_board |-> BoardValue(r.planets, r.board),
                   accepted |-> a.ret /= InvalidMove,
                   attacked |-> BoardValue(a.planets, b)]
    /\ UNCHANGED <<planets, boards, opening, attack_calls, end_turn_calls, ai, stack>>

NextSimulate ==
    \/ OpeningStep
    \/ EndTurnCall
    \/ \E sc \in AttackCells, tc \in AttackCells, n \in 0 .. MaxShipCount :
          SimulateMoveCall(sc, tc, n)

SpecSimulate == Init /\ [][NextSimulate]_vars

----------------------------------------------------------------------------
(* main.py: Game.  The game loop: start_game, the human's gestures in      *)
(* player-vs-AI mode and execute_ai_turn.  The Game fields the loop reads  *)
(* (board.ai_vs_ai, difficulty, ai_thinking) travel in the call record.    *)

\* The first turns of a game, in which the searches deeper than one ply are run
MaxDeepTurns == 4
\* The deepest search the human's attacks are explored against
MaxAttackDepth == 1

\* the instance of the other side answers
ai_for_other_side(player) == IF player = "ai" THEN "player" ELSE "ai"

\* execute_ai_turn lines 166-173: the owner of the instance chosen for player
\* (ai_player controls 'ai', ai_opponent controls 'player')
ai_for(player) == IF player = "ai" THEN "ai" ELSE "player"

\* start_game(difficulty) with game_mode chosen in the menu: a new board and
\* new MinimaxAI instances; from the menu or with R once the game is over
StartGame(ai_vs_ai, difficulty) ==
    /\ opening = <<>>
    /\ stack = <<>>
    /\ call.op = "init" \/ boards[LIVE].game_over
    /\ \E sz \in SizeLayouts : planets' = initialize_board(sz)
    /\ boards' = [b \in {LIVE} |-> NewBoard(LIVE)]
    /\ call' = [op |-> "start_game", ai_vs_ai |-> ai_vs_ai, difficulty |-> difficulty,
                ai_thinking |-> FALSE]
    /\ attack_calls' = 0
    /\ end_turn_calls' = 0
    /\ UNCHANGED <<opening, ai, stack>>

\* handle_board_click twice (source, then target), the digits typed and
\* RETURN: execute_player_attack
PlayerAttack(sc, tc, ship_count) ==
    /\ opening = <<>>
    /\ stack = <<>>
    /\ call.op \notin {"init", "get_best_move"}     \* a game is on, between two handlers
    /\ ~ call.ai_vs_ai
    /\ ~ boards[LIVE].game_over
    /\ attack_calls < MaxAttacks
    /\ max_depth(call.difficulty) <= MaxAttackDepth
    /\ boards[LIVE].current_player = "player"
    /\ planets[boards[LIVE].grid[sc]].owner = "player"
    /\ planets[boards[LIVE].grid[sc]].ships > 1
    /\ tc /= sc
    /\ ship_count > 0
    /\ ~ (ship_count >= planets[boards[LIVE].grid[sc]].ships)
    /\ LET b == boards[LIVE]
       IN /\ planets' = attack(planets, b, b.grid[sc], b.grid[tc], ship_count).planets
          /\ call' = AttackRead(planets, b, b.grid[sc], b.grid[tc], ship_count)
                        @@ [ai_vs_ai |-> call.ai_vs_ai, difficulty |-> call.difficulty,
                            ai_thinking |-> call.ai_thinking]
    /\ attack_calls' = attack_calls + 1
    /\ UNCHANGED <<boards, opening, end_turn_calls, ai, stack>>

\* K_SPACE in player-vs-AI mode: the human ends the turn
PlayerEndTurn ==
    /\ opening = <<>>
    /\ stack = <<>>
    /\ call.op \notin {"init", "get_best_move"}     \* a game is on, between two handlers
    /\ ~ call.ai_vs_ai
    /\ ~ boards[LIVE].game_over
    /\ boards[LIVE].current_player = "player"
    /\ end_turn_calls < MaxEndTurns
    /\ LET r == end_turn(planets, boards[LIVE])
       IN /\ planets' = r.planets
          /\ boards' = [boards EXCEPT ![LIVE] = r.board]
    /\ call' = [op |-> "end_turn", ai_vs_ai |-> call.ai_vs_ai,
                difficulty |-> call.difficulty, ai_thinking |-> TRUE]
    /\ end_turn_calls' = end_turn_calls + 1
    /\ UNCHANGED <<opening, attack_calls, ai, stack>>

\* run lines 315-328 and execute_ai_turn up to ai.get_best_move(): the loop
\* hands the turn to the instance of the side to move
ExecuteAiTurn ==
    /\ opening = <<>>
    /\ stack = <<>>
    /\ call.op \notin {"init", "get_best_move"}     \* a game is on, between two handlers
    /\ ~ boards[LIVE].game_over
    /\ call.ai_vs_ai \/ (boards[LIVE].current_player = "ai" /\ call.ai_thinking)
    /\ max_depth(call.difficulty) > 1 => boards[LIVE].turn < MaxDeepTurns
    /\ LET player == IF call.ai_vs_ai THEN boards[LIVE].current_player ELSE "ai"
           owner == ai_for(player)
       IN /\ ai' = [owner |-> owner, difficulty |-> call.difficulty,
                    max_depth |-> max_depth(call.difficulty)]
          /\ stack' = << Frame(LIVE, max_depth(call.difficulty), NegInf, PosInf, TRUE) >>
          /\ call' = [op |-> "get_best_move", owner |-> owner,
                      difficulty |-> call.difficulty,
                      before |-> BoardValue(planets, boards[LIVE]),
                      done |-> FALSE, ret |-> NoMove, score |-> Finite(0),
                      player |-> player, ai_vs_ai |-> call.ai_vs_ai,
                      ai_thinking |-> call.ai_thinking]
    /\ UNCHANGED <<planets, boards, opening, attack_calls, end_turn_calls>>

\* execute_ai_turn from the return of get_best_move: the attack with the move
\* returned, if any, and end_turn
ExecuteAiTurnEnd ==
    /\ opening = <<>>
    /\ stack = <<>>
    /\ call.op = "get_best_move"
    /\ call.done
    /\ "player" \in DOMAIN call
    /\ LET b == boards[LIVE]
           best_move == call.ret
           a == IF best_move = NoMove THEN [planets |-> planets, ret |-> InvalidMove]
                ELSE attack(planets, b, best_move[1], best_move[2], best_move[3])
           r == end_turn(a.planets, b)
       IN /\ planets' = r.planets
          /\ boards' = [boards EXCEPT ![LIVE] = r.board]
          /\ call' = [op |-> "execute_ai_turn", player |-> call.player,
                      current_player |-> b.current_player,
                      best_move |-> IF best_move = NoMove THEN NoMove
                                    ELSE <<get_position(planets[best_move[1]]),
                                           get_position(planets[best_move[2]]),
                                           best_move[3]>>,
                      source_owner |-> IF best_move = NoMove THEN None
                                       ELSE planets[best_move[1]].owner,
                      source_ships |-> IF best_move = NoMove THEN 0
                                       ELSE planets[best_move[1]].ships,
                      attack_info |-> a.ret,
                      ai_vs_ai |-> call.ai_vs_ai, difficulty |-> call.difficulty,
                      ai_thinking |-> IF call.ai_vs_ai /\ ~ r.board.game_over
                                      THEN call.ai_thinking ELSE FALSE]
    /\ UNCHANGED <<opening, attack_calls, end_turn_calls, ai, stack>>

\* A game from the menu
InitGame ==
    /\ Init
    /\ opening = <<>>

NextGame ==
    \/ \E ai_vs_ai \in BOOLEAN, difficulty \in Difficulties : StartGame(ai_vs_ai, difficulty)
    \/ \E sc \in AttackCells, tc \in AttackCells, n \in 0 .. MaxShipCount : PlayerAttack(sc, tc, n)
    \/ PlayerEndTurn
    \/ ExecuteAiTurn
    \/ MinimaxEnter
    \/ MinimaxSimulate
    \/ MinimaxReturn
    \/ ExecuteAiTurnEnd

SpecGame == InitGame /\ [][NextGame]_vars

----------------------------------------------------------------------------
(* The turns of a game: end_turn invoked again and again on the live       *)
(* board, as Game.run does for the side to move, with the explored attacks *)
(* in between.                                                             *)

\* board.end_turn(), invoked as long as the game is not over and, beyond
\* that, MaxEndTurns times more
EndTurnLoop ==
    /\ opening = <<>>
    /\ stack = <<>>
    /\ ~ boards[LIVE].game_over \/ end_turn_calls < MaxEndTurns
    /\ DoEndTurn
    /\ end_turn_calls' = IF boards[LIVE].game_over THEN end_turn_calls + 1
                         ELSE end_turn_calls
    /\ UNCHANGED <<opening, attack_calls, ai, stack>>

\* A new game, or one the player has opened by taking nine planets
InitTurns ==
    /\ Init
    /\ opening \in {<<>>, OpeningExpand}

NextTurns ==
    \/ OpeningStep
    \/ \E sc \in AttackCells, tc \in AttackCells, n \in 0 .. MaxShipCount : AttackCall(sc, tc, n)
    \/ EndTurnLoop

\* The loop keeps invoking end_turn: an end_turn that can be invoked is
\* eventually invoked
SpecTurns ==
    /\ InitTurns
    /\ [][NextTurns]_vars
    /\ WF_vars(OpeningStep)
    /\ WF_vars(EndTurnLoop)

----------------------------------------------------------------------------
(* Properties of the board rules *)

Live == boards[LIVE]
PlanetAt(pos) == planets[Live.grid[pos]]
Owned(P, b, owner) == Cardinality({c \in Cells : P[b.grid[c]].owner = owner})
Other(side) == IF side = "player" THEN "ai" ELSE "player"

ValidAttack(c) == c.op = "attack" /\ c.ret /= InvalidMove

\* C1: in every reachable state every planet has 0 <= ships <= size * 3.
C1_ShipsWithinCapacity ==
    \A id \in DOMAIN planets :
        0 <= planets[id].ships /\ planets[id].ships <= planets[id].size * 3

\* C2: an attack whose source is not owned by current_player, or whose
\* ship_count is >= source.ships or < 1, returns the invalid-move signal and
\* changes no planet and no field of the board.
C2_InvalidAttackNoEffect ==
    [][ ( /\ call'.op = "attack"
          /\ \/ call'.source_owner /= Live.current_player
             \/ call'.ship_count >= call'.source_ships
             \/ call'.ship_count < 1 )
        => /\ call'.ret = InvalidMove
           /\ planets' = planets
           /\ boards' = boards ]_vars

\* C2 witness: an attack from an owned planet with ship_count >= its ships was refused
C2_Witness ==
    /\ call.op = "attack"
    /\ call.ret = InvalidMove
    /\ call.source_owner = Live.current_player
    /\ call.ship_count >= 1
    /\ call.ship_count >= call.source_ships

\* C3: capture law: after a valid attack on a planet of another owner with more
\* ships sent than the target held, the target belongs to the attacker and holds
\* sent - ships_before; 3 ships sending 1 to an empty neutral planet leaves 1 and 2.
C3_CaptureLaw ==
    ( /\ ValidAttack(call)
      /\ call.target_owner /= call.source_owner
      /\ call.ship_count > call.target_ships )
    => /\ PlanetAt(call.ret[2]).owner = call.source_owner
       /\ PlanetAt(call.ret[2]).ships = call.ship_count - call.target_ships
       /\ ( call.source_ships = 3 /\ call.ship_count = 1
            /\ call.target_owner = None /\ call.target_ships = 0 )
          => PlanetAt(call.ret[2]).ships = 1 /\ PlanetAt(call.ret[1]).ships = 2

\* C3 witness: a source with 3 ships has captured an empty neutral planet with 1 ship
C3_Witness ==
    /\ ValidAttack(call)
    /\ call.source_ships = 3 /\ call.ship_count = 1
    /\ call.target_owner = None /\ call.target_ships = 0
    /\ PlanetAt(call.ret[2]).owner = call.source_owner

\* C4: defense law: after a valid attack on a planet of another owner with no
\* more ships sent than the target held, the target keeps its owner and holds
\* ships_before - sent.
C4_DefenseLaw ==
    ( /\ ValidAttack(call)
      /\ call.target_owner /= call.source_owner
      /\ call.ship_count <= call.target_ships )
    => /\ PlanetAt(call.ret[2]).owner = call.target_owner
       /\ PlanetAt(call.ret[2]).ships = call.target_ships - call.ship_count

\* C4 witness: an attack that sent exactly as many ships as the enemy target held
C4_Witness ==
    /\ ValidAttack(call)
    /\ call.target_owner = Other(call.source_owner)
    /\ call.ship_count = call.target_ships

\* C5 as stated: after every valid attack whose target has the source's owner
\* (any source and target the operation accepts), the target holds
\* min(ships_before + sent, max_capacity) and keeps its owner.
C5_Original ==
    ( ValidAttack(call) /\ call.target_owner = call.source_owner )
    => /\ PlanetAt(call.ret[2]).ships
            = Min(call.target_ships + call.ship_count, call.target_max_ships)
       /\ PlanetAt(call.ret[2]).owner = call.target_owner

\* C5 as amended: the reinforcement law for a target that is another planet
\* than the source.
C5_ReinforcementLaw ==
    ( ValidAttack(call) /\ call.target_owner = call.source_owner /\ ~ call.same_planet )
    => /\ PlanetAt(call.ret[2]).ships
            = Min(call.target_ships + call.ship_count, call.target_max_ships)
       /\ PlanetAt(call.ret[2]).owner = call.target_owner

\* C5 witness: a reinforcement of another planet that the capacity cut short
C5_Witness ==
    /\ ValidAttack(call)
    /\ call.target_owner = call.source_owner
    /\ ~ call.same_planet
    /\ call.target_ships + call.ship_count > call.target_max_ships
    /\ call.target_ships < call.target_max_ships

\* C6: every end_turn generates ships, adds exactly 1 to turn, hands
\* current_player to the other side and checks the terminal conditions on the
\* result (so the check sees the new turn); no other call changes turn or
\* current_player, hence turn never decreases and the sides alternate.
C6_EndTurnOrder ==
    [][ /\ call'.op = "end_turn" =>
            /\ Live'.turn = Live.turn + 1
            /\ Live'.current_player = Other(Live.current_player)
            /\ \A id \in DOMAIN planets :
                  /\ planets'[id].owner = planets[id].owner
                  /\ planets'[id].ships =
                        IF planets[id].owner \in Owners
                        THEN Min(planets[id].ships + 1, planets[id].max_ships)
                        ELSE planets[id].ships
            /\ (Live.turn + 1 >= MAX_TURNS => Live'.game_over)
        /\ call'.op /= "end_turn" =>
            /\ Live'.turn = Live.turn
            /\ Live'.current_player = Live.current_player
        /\ Live'.turn >= Live.turn ]_vars

\* C6 witness: the end_turn that moved turn from 29 to 30 ended the game on the
\* turn limit
C6_Witness ==
    /\ call.op = "end_turn"
    /\ Live.turn = MAX_TURNS
    /\ Live.game_over
    /\ Owned(planets, Live, "player") \in 1 .. (WIN_CONDITION_PLANETS - 1)
    /\ Owned(planets, Live, "ai") \in 1 .. (WIN_CONDITION_PLANETS - 1)

\* C7: after every end_turn, a side with 0 planets has lost, otherwise a side
\* with >= 12 planets has won, whatever the turn counter says.
C7_TerminalPriority ==
    call.op = "end_turn" =>
        LET pp == Owned(planets, Live, "player")
            ap == Owned(planets, Live, "ai")
        IN /\ pp = 0 => Live.game_over /\ Live.winner = "ai"
           /\ ap = 0 => Live.game_over /\ Live.winner = "player"
           /\ (pp > 0 /\ ap > 0 /\ pp >= WIN_CONDITION_PLANETS)
                 => Live.game_over /\ Live.winner = "player"
           /\ (pp > 0 /\ ap > 0 /\ ap >= WIN_CONDITION_PLANETS)
                 => Live.game_over /\ Live.winner = "ai"

\* C7 witness: the player won by owning exactly 12 planets, long before the turn limit
C7_Witness ==
    /\ call.op = "end_turn"
    /\ Live.turn < MAX_TURNS
    /\ Owned(planets, Live, "player") = WIN_CONDITION_PLANETS
    /\ Owned(planets, Live, "ai") > 0
    /\ Live.game_over /\ Live.winner = "player"

----------------------------------------------------------------------------
(* Properties of the search *)

LivePlanets == {Live.grid[c] : c \in Cells}

\* C9: for every board state, the board copy_board returns has the same turn,
\* current_player, game_over and winner as the board copied and, cell by cell,
\* the same size, owner, ships and max_ships; and it is made of Planet objects
\* of its own, none shared with the board copied.
C9_CloneIdentical ==
    call.op = "copy_board" =>
        /\ call.new_board = BoardValue(planets, Live)
        /\ call.new_planets \cap LivePlanets = {}

\* C10: a get_best_move call leaves the live board as it found it (every
\* planet's owner and ships, turn, current_player, game_over, winner), at every
\* moment of the search and when it returns; and no step of the search changes
\* a board that existed before the step: a simulated move builds a new board
\* out of new Planet objects and changes nothing else.
C10_SearchLeavesBoards ==
    /\ [](call.op = "get_best_move" => BoardValue(planets, Live) = call.before)
    /\ [][ (stack /= <<>> \/ stack' /= <<>>) =>
              /\ \A b \in DOMAIN boards \cap DOMAIN boards' :
                    BoardValue(planets', boards'[b]) = BoardValue(planets, boards[b])
              /\ \A id \in DOMAIN planets \cap DOMAIN planets' :
                    planets'[id] = planets[id]
              /\ \A b \in DOMAIN boards' \ DOMAIN boards :
                    \A c \in Cells : boards'[b].grid[c] \notin DOMAIN planets ]_vars

\* C10 witness: a hard search on the board of turn 29 has returned a move,
\* and the live board is what it was when the call was made
C10_Witness ==
    /\ call.op = "get_best_move"
    /\ call.done
    /\ call.difficulty = "hard"
    /\ call.ret /= NoMove
    /\ Live.turn = MAX_TURNS - 1
    /\ BoardValue(planets, Live) = call.before

\* The move a call returned, by coordinates
MoveCoords(m) ==
    IF m = NoMove THEN NoMove
    ELSE <<get_position(planets[m[1]]), get_position(planets[m[2]]), m[3]>>

Repeated(c) == c.op = "get_best_move" /\ c.done /\ "first" \in DOMAIN c

RootCandidates(owner) ==
    LET moves == get_possible_moves(Live, planets, Live, owner)
    IN {<<moves[i][1], moves[i][2], moves[i][3]>> : i \in DOMAIN moves}

Returned(c) == c.op = "get_best_move" /\ c.done

\* C12 as stated: get_best_move returns none if and only if the move generator
\* yields no candidate for the searching side on the current board, and
\* otherwise one of the root candidates.
C12_Original ==
    Returned(call) =>
        /\ call.ret = NoMove <=> RootCandidates(call.owner) = {}
        /\ call.ret /= NoMove => call.ret \in RootCandidates(call.owner)

\* C12 as amended: on a board whose game is not over, get_best_move returns
\* none if and only if the move generator yields no candidate, and otherwise
\* one of the root candidates; on a board whose game is over it returns none.
C12_NoneIffNoCandidate ==
    Returned(call) =>
        /\ call.ret = NoMove <=> (Live.game_over \/ RootCandidates(call.owner) = {})
        /\ call.ret /= NoMove => call.ret \in RootCandidates(call.owner)

\* C12 witness: the game goes on, the searching side has planets but no
\* candidate move, and get_best_move has returned none
C12_Witness ==
    /\ Returned(call)
    /\ ~ Live.game_over
    /\ Owned(planets, Live, call.owner) > 0
    /\ RootCandidates(call.owner) = {}
    /\ call.ret = NoMove

\* A board on which a side owns no planet, or WIN_CONDITION_PLANETS or more
Terminal(P, b) ==
    \E side \in Owners :
        Owned(P, b, side) = 0 \/ Owned(P, b, side) >= WIN_CONDITION_PLANETS

\* C13: at a search node whose board is terminal (a side owns 0 planets, or a
\* side owns >= 12) or whose remaining depth is 0, minimax returns the static
\* evaluation of the board with no move and expands no candidate move; for the
\* root and for the boards of simulated moves alike.
C13_TerminalNodesAreLeaves ==
    \A i \in DOMAIN stack :
        ( stack[i].depth = 0 \/ Terminal(planets, boards[stack[i].board]) ) =>
            /\ stack[i].pc \in {"call", "return"}
            /\ stack[i].pc = "return" =>
                  stack[i].ret = [eval |-> Finite(evaluate_board(planets,
                                                boards[stack[i].board], ai.owner)),
                                  move |-> NoMove]

\* C14: A* heuristic admissibility: for every pair of cells of the 4x4 grid,
\* the Manhattan distance between them is <= the path cost find_path returns
\* for that pair (orthogonal step 1, diagonal step sqrt(2)).
C14_HeuristicAdmissible ==
    call.op = "find_path" =>
        ~ CostLess(call.ret.cost, <<heuristic(call.start_pos, call.end_pos), 0>>)

\* The candidates of the last find_closest_planets call: the positions of its
\* target list that do not hold the source, and the distance of each
Candidates(c) == {m \in DOMAIN c.targets : c.targets[m] /= c.source}
CandidateDistance(c, m) == get_distance(planets[c.source], planets[c.targets[m]])

\* C19: find_closest_planets(source, candidates, k) returns min(k, number of
\* candidates other than source) entries, never the source itself, in ascending
\* order of A* distance to the source, such that no omitted candidate is
\* strictly closer than a returned one, and candidates at equal distance appear
\* in their input order.
C19_ClosestPlanets ==
    call.op = "find_closest_planets" =>
        LET ret == call.ret
            returned == {ret[i][1] : i \in DOMAIN ret}
        IN /\ Len(ret) = Min(call.max_count, Cardinality(Candidates(call)))
           /\ \A i \in DOMAIN ret :
                 /\ ret[i][1] /= call.source
                 /\ \E m \in Candidates(call) :
                       /\ call.targets[m] = ret[i][1]
                       /\ CandidateDistance(call, m) = ret[i][2]
           /\ \A i, j \in DOMAIN ret : i < j => ~ CostLess(ret[j][2], ret[i][2])
           /\ \A m \in Candidates(call) :
                 call.targets[m] \notin returned =>
                    \A i \in DOMAIN ret : ~ CostLess(CandidateDistance(call, m), ret[i][2])
           /\ \A i, j \in DOMAIN ret :
                 (i < j /\ ret[i][2] = ret[j][2]) =>
                    \E m, n \in Candidates(call) :
                       m < n /\ call.targets[m] = ret[i][1] /\ call.targets[n] = ret[j][1]

\* A call that leaves candidates out, skips the source, and returns two planets
\* at the same distance that the list holds in the other order of ids
C19_Witness ==
    /\ call.op = "find_closest_planets"
    /\ Len(call.ret) = call.max_count
    /\ Cardinality(Candidates(call)) > call.max_count
    /\ \E m \in DOMAIN call.targets : call.targets[m] = call.source
    /\ \E i, j \in DOMAIN call.ret :
          i < j /\ call.ret[i][2] = call.ret[j][2] /\ call.ret[i][1] > call.ret[j][1]

\* The cells of board b that side holds, and the total of a quantity over cells
CellsOf(b, side) == {c \in Cells : planets[boards[b].grid[c]].owner = side}

RECURSIVE Total(_, _)
Total(q, S) ==
    IF S = {} THEN 0
    ELSE LET c == CHOOSE c \in S : TRUE IN q[c] + Total(q, S \ {c})

\* The evaluation of board b for the side own, as the five weighted terms
Evaluation(b, own) ==
    LET opp == Other(own)
        ships == [c \in Cells |-> planets[boards[b].grid[c]].ships]
        size == [c \in Cells |-> planets[boards[b].grid[c]].size]
        own_planets == Cardinality(CellsOf(b, own))
        opp_planets == Cardinality(CellsOf(b, opp))
        center == {<<1, 1>>, <<1, 2>>, <<2, 1>>, <<2, 2>>}
    IN IF own_planets = 0 THEN -10000
       ELSE IF opp_planets = 0 \/ own_planets >= 12 THEN 10000
       ELSE IF opp_planets >= 12 THEN -10000
       ELSE 100 * (own_planets - opp_planets)
            + 10 * (Total(ships, CellsOf(b, own)) - Total(ships, CellsOf(b, opp)))
            + 50 * (Total(size, CellsOf(b, own)) - Total(size, CellsOf(b, opp)))
            + 30 * (Cardinality(CellsOf(b, own) \cap center)
                    - Cardinality(CellsOf(b, opp) \cap center))
            + 5 * Cardinality(CellsOf(b, None))

\* A node that returns the static evaluation of its board
StaticLeaf(f) == f.pc = "return" /\ f.possible_moves = <<>>

\* C15: the static evaluation is computed from the searching AI's own side and
\* equals -10000 if the own side has 0 planets; else +10000 if the opponent has
\* 0 planets or the own side has >= 12; else -10000 if the opponent has >= 12;
\* otherwise 100*(planets) + 10*(ships) + 50*(production) + 30*(center)
\* differences own - opponent, plus 5 per neutral planet.
C15_StaticEvaluation ==
    \A i \in DOMAIN stack :
        StaticLeaf(stack[i]) =>
            stack[i].ret.eval = Finite(Evaluation(stack[i].board, ai.owner))

\* The player's search evaluates a clone on which every term counts: the sides
\* differ in planets, ships, production and center planets, with neutral planets left
C15_Witness ==
    /\ stack /= <<>>
    /\ StaticLeaf(Top)
    /\ ai.owner = "player"
    /\ Top.board /= LIVE
    /\ LET own == CellsOf(Top.board, "player")
           opp == CellsOf(Top.board, "ai")
           center == {<<1, 1>>, <<1, 2>>, <<2, 1>>, <<2, 2>>}
       IN /\ Cardinality(own) \in 1 .. 11
          /\ Cardinality(opp) \in 1 .. 11
          /\ Cardinality(own) /= Cardinality(opp)
          /\ Cardinality(own \cap center) /= Cardinality(opp \cap center)
          /\ CellsOf(Top.board, None) /= {}
          /\ Top.ret.eval /= Finite(Evaluation(Top.board, "ai"))

\* C16: get_ship_count_recommendation returns 0 exactly when available =
\* source.ships - 1 is <= 0, or the target is not the side's, aggressiveness is
\* < 0.4 and target.ships + 1 >= available; otherwise 1 <= r <= available, with
\* r = min(available, floor(1.5*(target.ships+1))) for aggressiveness >= 0.7,
\* r = min(available, floor(1.2*(target.ships+1))) for 0.4 <= aggressiveness
\* < 0.7, r = target.ships + 1 for the low tier, and
\* r = max(1, floor(available*aggressiveness)) for a reinforcement.
C16_ShipCountRecommendation ==
    call.op = "get_ship_count_recommendation" =>
        LET available == call.source.ships - 1
            needed == call.target.ships + 1
            a == call.aggressiveness                 \* a[1] / a[2]
            own == call.target.owner = call.owner
            skip == \/ available <= 0
                    \/ (~ own /\ 10 * a[1] < 4 * a[2] /\ needed >= available)
            r == call.ret
        IN /\ r = 0 <=> skip
           /\ ~ skip =>
                 /\ 1 <= r /\ r <= available /\ r < call.source.ships
                 /\ own => r = Max(1, (available * a[1]) \div a[2])
                 /\ (~ own /\ 10 * a[1] >= 7 * a[2]) =>
                       r = Min(available, (3 * needed) \div 2)
                 /\ (~ own /\ 10 * a[1] >= 4 * a[2] /\ 10 * a[1] < 7 * a[2]) =>
                       r = Min(available, (6 * needed) \div 5)
                 /\ (~ own /\ 10 * a[1] < 4 * a[2]) => r = needed

\* A reinforcement whose share of the available ships rounds down to 0, raised to 1
C16_Witness ==
    /\ call.op = "get_ship_count_recommendation"
    /\ call.target.owner = call.owner
    /\ call.source.ships > 2
    /\ (call.source.ships - 1) * call.aggressiveness[1] < call.aggressiveness[2]
    /\ call.ret = 1

\* The activations of the nine rules on the inputs of the last evaluate_attack
\* call, each output taking the largest of the rules that conclude it
RuleActivations(c) ==
    LET ship_ratio == IF c.source.ships = 0 THEN QInt(1)
                      ELSE Q(c.target.ships, c.source.ships)
        value == calculate_strategic_value(c.target)
        current_turn == (c.turn \div 2) + 1
        weak == planet_strength_weak(ship_ratio)
        medium_strength == planet_strength_medium(ship_ratio)
        strong == planet_strength_strong(ship_ratio)
        low_value == strategic_value_low(value)
        medium_value == strategic_value_medium(value)
        high_value == strategic_value_high(value)
        early == game_phase_early(current_turn)
        mid == game_phase_mid(current_turn)
        late == game_phase_late(current_turn)
    IN [low |-> QMax(strong, QMax(QMin(medium_strength, low_value), QMin(late, strong))),
        medium |-> QMax(QMin(weak, low_value),
                        QMax(QMin(medium_strength, high_value), QMin(mid, medium_value))),
        high |-> QMax(QMin(weak, high_value),
                      QMax(QMin(early, weak), QMin(late, QMin(weak, high_value))))]

\* C17: for every source, target and turn, evaluate_attack returns an
\* aggressiveness in [0, 1]: the weighted centroid of the low / medium / high
\* activations of the nine min/max rules over the centres 0.25 / 0.5 / 0.85,
\* and exactly 0.5 when the three activations are 0.
C17_AggressivenessCentroid ==
    call.op = "evaluate_attack" =>
        LET act == RuleActivations(call)
            total == QAdd(QAdd(act.low, act.medium), act.high)
            weighted == QAdd(QAdd(QMul(act.low, <<1, 4>>), QMul(act.medium, <<1, 2>>)),
                             QMul(act.high, <<17, 20>>))
        IN /\ QLeq(QInt(0), call.ret) /\ QLeq(call.ret, QInt(1))
           /\ total /= QInt(0) => QMul(call.ret, total) = weighted
           /\ total = QInt(0) => call.ret = <<1, 2>>

\* A call in which no rule fires
C17_Witness ==
    /\ call.op = "evaluate_attack"
    /\ RuleActivations(call) = [low |-> QInt(0), medium |-> QInt(0), high |-> QInt(0)]
    /\ call.ret = <<1, 2>>

\* C18: on a board at turn 0 where side A owns only (0,0) with 10 ships, side B
\* only (3,3) with 10 ships and every other planet is neutral with size 2 and 0
\* ships, get_best_move for A at easy difficulty returns a move whose source is
\* (0,0) and whose target is a neutral planet, with a ship count >= 1; the
\* recommendation against each empty neutral planet next to (0,0) is not 0.
C18_ScenarioOpeningMove ==
    ( Returned(call) /\ call.difficulty = "easy" /\ call.owner = PlanetAt(<<0, 0>>).owner ) =>
        /\ call.ret /= NoMove
        /\ call.ret[1] = Live.grid[<<0, 0>>]
        /\ planets[call.ret[2]].owner = None
        /\ call.ret[3] >= 1
        /\ \A cell \in {<<1, 0>>, <<0, 1>>, <<1, 1>>} :
              get_ship_count_recommendation(
                  PlanetAt(<<0, 0>>), PlanetAt(cell), call.owner,
                  evaluate_attack(Live, PlanetAt(<<0, 0>>), PlanetAt(cell))) >= 1

\* The search of the side at (0,0) has returned its move on the scenario's board
C18_Witness ==
    /\ Returned(call)
    /\ call.difficulty = "easy"
    /\ call.owner = PlanetAt(<<0, 0>>).owner
    /\ Live.turn = 0
    /\ Owned(planets, Live, "player") = 1
    /\ Owned(planets, Live, "ai") = 1
    /\ PlanetAt(<<0, 0>>).ships = 10
    /\ PlanetAt(<<3, 3>>).ships = 10
    /\ call.ret /= NoMove

\* minimax without the two cut-offs (lines 246-247 and 266-267): the same base
\* cases, candidate order, first-best choice and bonus, every candidate taken.
\* nb is the id of the next simulated board.
RECURSIVE minimax_no_cutoff(_, _, _, _, _, _)
RECURSIVE NoCutoffLoop(_, _, _, _, _, _, _, _, _, _)
NoCutoffLoop(P, b, nb, depth, is_maximizing, owner, possible_moves, i, best_eval, best_move) ==
    IF i > Len(possible_moves) THEN [eval |-> best_eval, move |-> best_move]
    ELSE LET move == possible_moves[i]
             r == simulate_move(P, b, nb, move[1], move[2], move[3])
             child == minimax_no_cutoff(r.planets, r.board, nb + 1, depth - 1,
                                        ~ is_maximizing, owner)
             eval_score == IF is_maximizing THEN AddBonus(child.eval, move[4])
                           ELSE child.eval
             better == IF is_maximizing THEN ScoreLess(best_eval, eval_score)
                       ELSE ScoreLess(eval_score, best_eval)
         IN NoCutoffLoop(P, b, nb, depth, is_maximizing, owner, possible_moves, i + 1,
                         IF better THEN eval_score ELSE best_eval,
                         IF better THEN <<move[1], move[2], move[3]>> ELSE best_move)

minimax_no_cutoff(P, b, nb, depth, is_maximizing, owner) ==
    LET current_player == IF is_maximizing THEN owner
                          ELSE (IF owner = "ai" THEN "player" ELSE "ai")
        possible_moves == get_possible_moves(boards[LIVE], P, b, current_player)
        evaluated == [eval |-> Finite(evaluate_board(P, b, owner)), move |-> NoMove]
    IN IF depth = 0 \/ b.game_over THEN evaluated
       ELSE IF possible_moves = <<>> THEN evaluated
       ELSE NoCutoffLoop(P, b, nb, depth, is_maximizing, owner, possible_moves, 1,
                         IF is_maximizing THEN NegInf ELSE PosInf, NoMove)

\* C20: alpha-beta pruning does not change the search result: for every board
\* and every depth in {1, 2, 3}, the root score and the root move that minimax
\* returns with the beta <= alpha cut-offs equal those of the same minimax run
\* without any cut-off.
C20_PruningPreservesResult ==
    Returned(call) =>
        LET full == minimax_no_cutoff(planets, Live, 1, max_depth(call.difficulty),
                                      TRUE, call.owner)
        IN call.score = full.eval /\ call.ret = full.move

\* The side that moves at the node of activation f
ActingSide(f) == IF f.is_maximizing THEN ai.owner ELSE Other(ai.owner)

\* The candidates of activation f that leave from planet source
MovesFrom(f, source) == {k \in DOMAIN f.possible_moves : f.possible_moves[k][1] = source}

\* The planets of the node's board that are strictly closer to source than target
CloserThan(f, source, target) ==
    {c \in Cells :
        /\ boards[f.board].grid[c] /= source
        /\ CostLess(get_distance(planets[source], planets[boards[f.board].grid[c]]),
                    get_distance(planets[source], planets[target]))}

\* C21: every candidate (source, target, ships, aggressiveness) returned by
\* get_possible_moves has its source owned by the side with more than 1 ship,
\* target /= source and 1 <= ships <= source.ships - 1; a source contributes at
\* most 8 candidates, all among its 8 nearest other planets; and the list is
\* ordered by non-increasing aggressiveness.
C21_CandidateMoves ==
    ( stack /= <<>> /\ Top.pc = "loop" /\ Top.i = 1 ) =>   \* the list was just returned
        LET f == Top
            moves == f.possible_moves
        IN /\ \A k \in DOMAIN moves :
                 LET source == moves[k][1]
                     target == moves[k][2]
                 IN /\ \E c \in Cells : boards[f.board].grid[c] = source
                    /\ \E c \in Cells : boards[f.board].grid[c] = target
                    /\ planets[source].owner = ActingSide(f)
                    /\ planets[source].ships > 1
                    /\ target /= source
                    /\ 1 <= moves[k][3] /\ moves[k][3] <= planets[source].ships - 1
                    /\ Cardinality(MovesFrom(f, source)) <= 8
                    /\ Cardinality(CloserThan(f, source, target)) < 8
           /\ \A k, l \in DOMAIN moves : k < l => QLeq(moves[l][4], moves[k][4])

\* A node with candidates of two aggressiveness values, from two sources, one of
\* which contributes 8 candidates
C21_Witness ==
    /\ stack /= <<>>
    /\ Top.pc = "loop"
    /\ Top.i = 1
    /\ \E k, l \in DOMAIN Top.possible_moves :
          /\ Top.possible_moves[k][1] /= Top.possible_moves[l][1]
          /\ Top.possible_moves[k][4] /= Top.possible_moves[l][4]
          /\ Cardinality(MovesFrom(Top, Top.possible_moves[k][1])) = 8

\* C22: the simulation is faithful to the attack rule: for every board and
\* every move (source, target, ships) that attack would accept, the owner and
\* ships of every planet on the board produced by simulate_move equal those of
\* the real board after attack(source, target, ships) on an identical board.
C22_SimulationFaithful ==
    ( call.op = "simulate_move" /\ call.accepted ) =>
        \A c \in Cells :
            /\ call.new_board.cells[c].owner = call.attacked.cells[c].owner
            /\ call.new_board.cells[c].ships = call.attacked.cells[c].ships

\* An accepted move of the ai that takes a planet from the player
C22_Witness ==
    /\ call.op = "simulate_move"
    /\ call.accepted
    /\ call.before.cells[call.source].owner = "ai"
    /\ call.before.cells[call.target].owner = "player"
    /\ call.new_board.cells[call.target].owner = "ai"
    /\ call.new_board.cells[call.target].ships = call.ships - call.before.cells[call.target].ships

\* Two cells of the grid next to each other, in any of the 8 directions
Adjacent(p, q) ==
    /\ p \in Cells /\ q \in Cells /\ p /= q
    /\ Abs(p[1] - q[1]) <= 1 /\ Abs(p[2] - q[2]) <= 1

\* The cost of one step: 1 along a row or column, sqrt(2) along a diagonal
StepCost(p, q) == IF p[1] = q[1] \/ p[2] = q[2] THEN <<1, 0>> ELSE <<0, 1>>

CheapestOf(costs) == CHOOSE c \in costs : \A d \in costs : ~ CostLess(d, c)

\* The cheapest cost from every cell to every cell over paths of at most k
\* steps, by relaxation from the paths of at most k - 1 steps; InfCost for none
RECURSIVE CheapestWithin(_)
CheapestWithin(k) ==
    IF k = 0 THEN [pq \in Cells \X Cells |-> IF pq[1] = pq[2] THEN <<0, 0>> ELSE InfCost] @@ <<>>
    ELSE LET D == CheapestWithin(k - 1)
         IN [pq \in Cells \X Cells |->
                LET through == {CostAdd(D[<<pq[1], q>>], StepCost(q, pq[2])) :
                                   q \in {q \in Cells : Adjacent(q, pq[2])
                                                        /\ D[<<pq[1], q>>] /= InfCost}}
                    costs == through \cup (IF D[pq] = InfCost THEN {} ELSE {D[pq]})
                IN IF costs = {} THEN InfCost ELSE CheapestOf(costs)] @@ <<>>

\* No path without a repeated cell has more steps than there are other cells
MinimumCost == CheapestWithin(BOARD_SIZE * BOARD_SIZE - 1)

\* The cost of a path: the sum of its steps
RECURSIVE PathCost(_)
PathCost(path) ==
    IF Len(path) <= 1 THEN <<0, 0>>
    ELSE CostAdd(StepCost(path[1], path[2]), PathCost(Tail(path)))

\* C23: for every pair of cells (start, goal), find_path returns a non-empty
\* path that begins at start, ends at goal, visits only in-grid cells, moves
\* between 8-adjacent cells at each step, and whose returned cost is the minimum
\* over all such paths; for start = goal it returns the single-node path with
\* cost 0; the empty path with infinite cost is never returned.
C23_PathOptimal ==
    call.op = "find_path" =>
        LET path == call.ret.path
            cost == call.ret.cost
        IN /\ path /= <<>> /\ cost /= InfCost
           /\ path[1] = call.start_pos /\ path[Len(path)] = call.end_pos
           /\ \A i \in DOMAIN path : path[i] \in Cells
           /\ \A i \in 1 .. (Len(path) - 1) : Adjacent(path[i], path[i + 1])
           /\ cost = PathCost(path)
           /\ cost = MinimumCost[<<call.start_pos, call.end_pos>>]
           /\ call.start_pos = call.end_pos => path = <<call.start_pos>> /\ cost = <<0, 0>>

\* A path of straight and diagonal steps that costs less than the heuristic's estimate
C23_Witness ==
    /\ call.op = "find_path"
    /\ call.ret.cost[1] > 0
    /\ call.ret.cost[2] > 0
    /\ Len(call.ret.path) = call.ret.cost[1] + call.ret.cost[2] + 1
    /\ CostLess(call.ret.cost, <<heuristic(call.start_pos, call.end_pos), 0>>)

\* C24: a successful attack with source /= target decreases source.ships by
\* exactly the sent count, leaving the source at least 1 ship and its owner
\* unchanged, and changes nothing except the source and target planets: every
\* other planet, turn, current_player, game_over and winner are unchanged.
C24_AttackFrame ==
    [][ ( ValidAttack(call') /\ call'.ret[1] /= call'.ret[2] ) =>
           LET source == Live.grid[call'.ret[1]]
               target == Live.grid[call'.ret[2]]
           IN /\ planets'[source].ships = planets[source].ships - call'.ship_count
              /\ planets'[source].ships >= 1
              /\ planets'[source] = [planets[source] EXCEPT !.ships = planets'[source].ships]
              /\ DOMAIN planets' = DOMAIN planets
              /\ \A id \in DOMAIN planets \ {source, target} : planets'[id] = planets[id]
              /\ planets'[target].x = planets[target].x
              /\ planets'[target].y = planets[target].y
              /\ planets'[target].size = planets[target].size
              /\ planets'[target].max_ships = planets[target].max_ships
              /\ boards' = boards ]_vars

\* A successful attack that left its source exactly 1 ship, on a board whose game is over
C24_Witness ==
    /\ ValidAttack(call)
    /\ call.ret[1] /= call.ret[2]
    /\ PlanetAt(call.ret[1]).ships = 1
    /\ call.ship_count = call.source_ships - 1
    /\ Live.game_over

\* C25: ship generation never takes ships away: generate_all_ships (and so
\* end_turn) leaves each owned planet with ships >= its ships before the call,
\* leaves every neutral planet's ships unchanged, and changes no planet's owner.
C25_GenerationNeverRemoves ==
    [][ call'.op = "end_turn" =>
           \A id \in LivePlanets :
               /\ planets'[id].owner = planets[id].owner
               /\ planets[id].owner /= None => planets'[id].ships >= planets[id].ships
               /\ planets[id].owner = None => planets'[id].ships = planets[id].ships ]_vars


\* C26: in both modes the game loop runs execute_ai_turn for the side to move,
\* and the move get_best_move returns, if any, is accepted by board.attack:
\* its source is owned by current_player and 1 <= ship_count < source.ships.
C26_AiMoveAccepted ==
    call.op = "execute_ai_turn" =>
        /\ call.player = call.current_player
        /\ call.best_move /= NoMove =>
              /\ call.attack_info /= InvalidMove
              /\ call.source_owner = call.current_player
              /\ 1 <= call.best_move[3]
              /\ call.best_move[3] < call.source_ships

\* execute_ai_turn has played a move for the 'player' side in AI-vs-AI mode
C26_Witness ==
    /\ call.op = "execute_ai_turn"
    /\ call.ai_vs_ai
    /\ call.player = "player"
    /\ call.best_move /= NoMove
    /\ call.attack_info /= InvalidMove


C28_OwnershipKept ==
    /\ [](\A id \in LivePlanets : planets[id].owner = None => planets[id].ships = 0)
    /\ [](~ (Owned(planets, Live, "player") = 0 /\ Owned(planets, Live, "ai") = 0))
    /\ [][ LET Neutral(P) == {id \in LivePlanets : P[id].owner = None}
           IN /\ \A id \in LivePlanets :
                    planets[id].owner /= None => planets'[id].owner /= None
              /\ Cardinality(Neutral(planets')) <= Cardinality(Neutral(planets)) ]_vars

\* An attack with as many ships as the defenders of an enemy planet: the
\* planet is left with 0 ships and keeps its owner
C28_Witness ==
    /\ ValidAttack(call)
    /\ call.target_owner \in Owners \ {call.source_owner}
    /\ call.ship_count = call.target_ships
    /\ PlanetAt(call.ret[2]).ships = 0
    /\ PlanetAt(call.ret[2]).owner = call.target_owner


\* C29: winner consistency.  winner is set exactly when game_over is true;
\* when end_turn leaves the game over with a side as winner, that side owns
\* strictly more planets than the other in that state; and it leaves a tie
\* only at turn >= 30 with both sides owning the same number of planets.
C29_WinnerConsistent ==
    /\ [](Live.winner /= None <=> Live.game_over)
    /\ [][ (call'.op = "end_turn" /\ Live'.game_over) =>
              LET player_planets == Owned(planets', Live', "player")
                  ai_planets == Owned(planets', Live', "ai")
              IN /\ Live'.winner \in {"player", "ai", "tie"}
                 /\ Live'.winner = "player" => player_planets > ai_planets
                 /\ Live'.winner = "ai" => ai_planets > player_planets
                 /\ Live'.winner = "tie" => /\ Live'.turn >= MAX_TURNS
                                            /\ player_planets = ai_planets ]_vars

\* end_turn has ended the game in a tie
C29_Witness ==
    /\ call.op = "end_turn"
    /\ Live.game_over
    /\ Live.winner = "tie"
    /\ Owned(planets, Live, "player") = Owned(planets, Live, "ai")


\* C30: between plies the search applies only the attack.  The board handed
\* to a child node differs from its parent's board in the source and target
\* planets of the move alone (the source has given the ships sent and nothing
\* was generated), its turn and current_player are those of the root board,
\* no terminal check was made on it, and at a minimizing node the acting side
\* is not the current_player of the node's board.
C30_OnlyTheAttackBetweenPlies ==
    (Len(stack) >= 2 /\ Top.pc = "call") =>
        LET parent == stack[Len(stack) - 1]
            move == parent.possible_moves[parent.i]
            board == boards[parent.board]
            new_board == boards[Top.board]
            source == get_position(planets[move[1]])
            target == get_position(planets[move[2]])
        IN /\ \A c \in Cells \ {source, target} :
                 planets[new_board.grid[c]] = planets[board.grid[c]]
           /\ planets[new_board.grid[source]].ships =
                 planets[board.grid[source]].ships - move[3]
           /\ planets[new_board.grid[source]].owner = planets[board.grid[source]].owner
           /\ new_board.turn = Live.turn
           /\ new_board.current_player = Live.current_player
           /\ ~ new_board.game_over
           /\ ~ Top.is_maximizing => ActingSide(Top) /= new_board.current_player

\* The search is two plies down: a move of the searching side and the
\* opponent's reply have been simulated, and the board differs from the root's
C30_Witness ==
    /\ Len(stack) = 3
    /\ Top.pc = "call"
    /\ ~ stack[2].is_maximizing
    /\ ActingSide(stack[2]) /= boards[stack[2].board].current_player
    /\ boards[Top.board].turn = Live.turn
    /\ \E c \in Cells : planets[boards[Top.board].grid[c]] /= planets[Live.grid[c]]

====
